---- MODULE Spec2Model ----
(***************************************************************************)
(* Scoring and aggregation pipeline of src/lib/github-api.ts.               *)
(*                                                                          *)
(* The exported entry points calculateOpenSourceValue,                      *)
(* calculateContributorScore and fetchRepoData are asynchronous functions   *)
(* run by a single-threaded cooperative scheduler: a function runs without  *)
(* interruption from one `await` to the next.  Every action below is the    *)
(* arrival of the response (success or failure) of one pending remote       *)
(* lookup together with the continuation that runs up to the next `await`.  *)
(*                                                                          *)
(* Numbers: the code computes with IEEE doubles, and so does the model,     *)
(* operation by operation with rounding to 53 significant bits.  Exact      *)
(* rationals <<numerator, denominator>> state what a formula is worth as a  *)
(* real number.                                                             *)
(* Timestamps are whole days counted from 1 January of a non-leap year.     *)
(* Logins are sequences of character codes so that toLowerCase is modelled  *)
(* by what it does.                                                         *)
(***************************************************************************)
EXTENDS Integers, Sequences, FiniteSets, TLC

\* ------------------------------------------------------------------------
\* Bounds of the model
\* ------------------------------------------------------------------------

\* Largest number of entries in the fetched user repository list.
MaxRepos ==
  2

\* Largest number of lookups that fail while calculateOpenSourceValue runs
\* (the direct calls of the other entry points are not limited).
MaxFailures ==
  2

\* ------------------------------------------------------------------------
\* Program constants
\* ------------------------------------------------------------------------

\* per_page of the contributor lookup in isOpenSourceRepo.
ClassifierPerPage ==
  100

\* per_page of the contributor lookup in fetchRepoData.
RepoDataContributorsPerPage ==
  10

\* per_page of the commit lookups.
CommitsPerPage ==
  100

\* per_page of the issue, pull request and user repository lists.
ListPerPage ==
  100

\* The eligibility threshold.
Threshold ==
  35

\* ------------------------------------------------------------------------
\* Arithmetic helpers
\* ------------------------------------------------------------------------

\* The arithmetic helpers are functions, applied with [ ]: a function is
\* applied to the values of its arguments, as a JavaScript function is.

Min[a \in Int, b \in Int] ==
  IF a < b THEN a ELSE b

Max[a \in Int, b \in Int] ==
  IF a > b THEN a ELSE b

\* Rationals <<n, d>> with d > 0: the real numbers the formulas of the
\* scoring denote, against which the doubles of the code are compared.
Rational ==
  Int \X (Nat \ {0})

RInt(n) ==
  <<n, 1>>

RFrac(n, d) ==
  <<n, d>>

RAdd[a \in Rational, b \in Rational] ==
  <<a[1] * b[2] + b[1] * a[2], a[2] * b[2]>>

RSub[a \in Rational, b \in Rational] ==
  <<a[1] * b[2] - b[1] * a[2], a[2] * b[2]>>

RMul[a \in Rational, b \in Rational] ==
  <<a[1] * b[1], a[2] * b[2]>>

RLess[a \in Rational, b \in Rational] ==
  a[1] * b[2] < b[1] * a[2]

REq[a \in Rational, b \in Rational] ==
  a[1] * b[2] = b[1] * a[2]

RMin[a \in Rational, b \in Rational] ==
  IF RLess[a, b] THEN a ELSE b

RMax[a \in Rational, b \in Rational] ==
  IF RLess[b, a] THEN a ELSE b

\* Math.round: the nearest integer, ties towards +infinity.
RRound[a \in Rational] ==
  (2 * a[1] + a[2]) \div (2 * a[2])

\* ------------------------------------------------------------------------
\* The number type (IEEE 754 binary64), as the classifier and the health
\* scorer use it: a non-negative number below 256 is the triple <<h, m, l>>
\* of 24-bit limbs that stands for (h * 2^48 + m * 2^24 + l) / 2^64.  Every
\* operation computes the exact result and rounds it to 53 significant bits,
\* ties to even.
\* ------------------------------------------------------------------------

\* The element of a one-element set.  { e(x) : x \in {v} } is e with the
\* `const` local x holding v: v is computed once, then used.
Only(S) ==
  CHOOSE x \in S : TRUE

Limbs ==
  Nat \X Nat \X Nat

\* Carries moved upwards until every limb is below 2^24.
DNorm[x \in Limbs] ==
  LET middle == x[2] + x[3] \div 2^24
  IN  <<x[1] + middle \div 2^24, middle % 2^24, x[3] % 2^24>>

\* An integer as a number.
DInt(n) ==
  <<n * 2^16, 0, 0>>

\* The number of binary digits of n.
BitLength[n \in Nat] ==
  IF n = 0 THEN 0 ELSE 1 + BitLength[n \div 2]

\* Rounding of an exact result to 53 significant bits, ties to even; sticky
\* tells that the exact result lies above x by less than one unit of l.  A
\* result below 2^-11 keeps all the bits x has.
DRound[x \in Limbs, sticky \in BOOLEAN] ==
  Only({LET unit == 2^drop
            kept == x[3] \div unit
            rest == x[3] % unit
            up == \/ 2 * rest > unit
                  \/ 2 * rest = unit /\ (sticky \/ kept % 2 = 1)
        IN  CASE drop > 0 ->
                   DNorm[<<x[1], x[2], (kept + (IF up THEN 1 ELSE 0)) * unit>>]
              [] drop <= 0 /\ ~sticky -> x :
          drop \in {BitLength[x[1]] - 5}})

\* x + y
DAdd[x \in Limbs, y \in Limbs] ==
  DRound[DNorm[<<x[1] + y[1], x[2] + y[2], x[3] + y[3]>>], FALSE]

\* x - y, for x >= y
DSub[x \in Limbs, y \in Limbs] ==
  LET low == x[3] - y[3]
      lowBorrow == IF low < 0 THEN 1 ELSE 0
      middle == x[2] - y[2] - lowBorrow
      middleBorrow == IF middle < 0 THEN 1 ELSE 0
  IN  DRound[<<x[1] - y[1] - middleBorrow,
               middle + middleBorrow * 2^24,
               low + lowBorrow * 2^24>>, FALSE]

\* x * n for an integer n below 128
DTimes[x \in Limbs, n \in 0..127] ==
  DRound[DNorm[<<x[1] * n, x[2] * n, x[3] * n>>], FALSE]

\* The digits of the quotient of the base-4096 digits ds by d (at most 1000),
\* most significant first, after a remainder r; the final remainder is last.
LongDivision[ds \in Seq(0..4095), d \in 1..1000, r \in Nat] ==
  IF ds = <<>> THEN <<r>>
  ELSE <<(r * 4096 + Head(ds)) \div d>>
         \o LongDivision[Tail(ds), d, (r * 4096 + Head(ds)) % d]

\* x / d for an integer d from 1 to 1000
DOver[x \in Limbs, d \in 1..1000] ==
  Only({DRound[<<q[1] * 4096 + q[2], q[3] * 4096 + q[4], q[5] * 4096 + q[6]>>,
               q[7] # 0] :
          q \in {LongDivision[<<x[1] \div 4096, x[1] % 4096, x[2] \div 4096,
                                x[2] % 4096, x[3] \div 4096, x[3] % 4096>>, d, 0]}})

\* n / d for integers n >= 0 and d from 1 to 1000 with n / d below 256; a
\* decimal literal such as 0.3 is the number 3 / 10.
DQuot[n \in Nat, d \in 1..1000] ==
  Only({DRound[<<(n \div d) * 2^16 + ((n % d) * 2^16) \div d,
                 q[1] * 4096 + q[2], q[3] * 4096 + q[4]>>,
               q[5] # 0] :
          q \in {LongDivision[<<0, 0, 0, 0>>, d, ((n % d) * 2^16) % d]}})

\* x < y
DLess[x \in Limbs, y \in Limbs] ==
  \/ x[1] < y[1]
  \/ x[1] = y[1] /\ x[2] < y[2]
  \/ x[1] = y[1] /\ x[2] = y[2] /\ x[3] < y[3]

\* Math.min and Math.max on numbers
DMin[x \in Limbs, y \in Limbs] ==
  IF DLess[x, y] THEN x ELSE y

DMax[x \in Limbs, y \in Limbs] ==
  IF DLess[x, y] THEN y ELSE x

\* Math.round: the nearest integer, ties towards +infinity.
DRoundToInt[x \in Limbs] ==
  x[1] \div 2^16 + (IF x[1] % 2^16 >= 2^15 THEN 1 ELSE 0)

\* ------------------------------------------------------------------------
\* Strings
\* ------------------------------------------------------------------------

\* String.prototype.toLowerCase on a sequence of ASCII codes.
ToLowerCase(s) ==
  [i \in DOMAIN s |-> IF s[i] \in 65..90 THEN s[i] + 32 ELSE s[i]]

\* Logins used by the model: "a", "A", "b" and "c".
LoginLowerA ==
  <<97>>

LoginUpperA ==
  <<65>>

LoginB ==
  <<98>>

LoginC ==
  <<99>>

\* ------------------------------------------------------------------------
\* Sequences
\* ------------------------------------------------------------------------

\* The first n elements of s (a page of at most n results).
Take(s, n) ==
  SubSeq(s, 1, Min[Len(s), n])

\* Array.prototype.filter is SelectSeq of the Sequences module.

\* The sum of a sequence of integers (Array.prototype.reduce with +).
RECURSIVE SumSeq(_)
SumSeq(s) ==
  IF s = <<>> THEN 0 ELSE Head(s) + SumSeq(Tail(s))

\* Insert the pair p = <<key, element>> into ps, which is ordered by key
\* descending, behind every pair whose key is not smaller (stable).
RECURSIVE InsertDesc(_, _)
InsertDesc(p, ps) ==
  IF ps = <<>> THEN <<p>>
  ELSE IF p[1] > Head(ps)[1] THEN <<p>> \o ps
       ELSE <<Head(ps)>> \o InsertDesc(p, Tail(ps))

RECURSIVE SortPairsDesc(_)
SortPairsDesc(ps) ==
  IF ps = <<>> THEN <<>>
  ELSE Only({InsertDesc(ps[Len(ps)], front) :
               front \in {SortPairsDesc(SubSeq(ps, 1, Len(ps) - 1))}})

\* Array.prototype.sort((a, b) => key(b) - key(a)), keys[i] being the key
\* of s[i]: stable, key descending.
SortDescBy(s, keys) ==
  Only({[i \in DOMAIN sorted |-> sorted[i][2]] :
          sorted \in {SortPairsDesc([i \in DOMAIN s |-> <<keys[i], s[i]>>])}})

\* Array.prototype.findIndex, matches[i] being the predicate at element i;
\* 1-based, 0 when nothing matches (-1 in the code).
FindIndex(matches) ==
  IF \E i \in DOMAIN matches : matches[i]
  THEN CHOOSE i \in DOMAIN matches : matches[i] /\ \A j \in 1..(i - 1) : ~matches[j]
  ELSE 0

\* ------------------------------------------------------------------------
\* Calendar (class Date): a timestamp is a whole number of days since
\* 1 January of year 0; month k is the k-th month since then.
\* ------------------------------------------------------------------------

MonthLengths ==
  <<31, 28, 31, 30, 31, 30, 31, 31, 30, 31, 30, 31>>

DaysInMonth(k) ==
  MonthLengths[(k % 12) + 1]

\* new Date(year, month, 1) for month k.
RECURSIVE DaysBefore(_)
DaysBefore(k) ==
  IF k <= 0 THEN 0 ELSE DaysBefore(k - 1) + DaysInMonth(k - 1)

\* The first days of the months of the modelled years, as a table.
MonthStarts ==
  [k \in 0..48 |-> DaysBefore(k)] @@ <<>>

MonthStart(k) ==
  IF k <= 0 THEN 0 ELSE MonthStarts[k]

\* Date.prototype.getFullYear() * 12 + getMonth().
MonthOf(day) ==
  CHOOSE k \in 0..47 : MonthStart(k) <= day /\ day < MonthStart(k + 1)

\* Date.prototype.getDate().
DayOfMonth(day) ==
  day - MonthStart(MonthOf(day)) + 1

\* d.setMonth(d.getMonth() - n): the same day of the month n months earlier;
\* a day past the end of that month runs over into the next one.
SetMonthBack(day, n) ==
  MonthStart(MonthOf(day) - n) + DayOfMonth(day) - 1

\* new Date() of the run: 31 May of year 1.
Today ==
  MonthStart(16) + 30

\* A missing timestamp (closed_at, merged_at or a commit date that is null).
NoDate ==
  0 - 1

\* ------------------------------------------------------------------------
\* isOpenSourceRepo: the weighted score
\* ------------------------------------------------------------------------

\* factors: [forks, stars, contributors, hasLicense, issues, recentActivity,
\* size]; let score = 0, then seven times score += ... in the number type.
OpenSourceScore(factors) ==
  DAdd[DAdd[DAdd[DAdd[DAdd[DAdd[DAdd[
    DInt(0),
    DTimes[DQuot[5, 10], Min[factors.forks, 50]]],
    DTimes[DQuot[3, 10], Min[factors.stars, 100]]],
    DInt(Min[factors.contributors, 10] * 5)],
    DInt(IF factors.hasLicense THEN 20 ELSE 0)],
    DTimes[DQuot[4, 10], Min[factors.issues, 50]]],
    DTimes[DQuot[2, 10], Min[factors.recentActivity, 100]]],
    DMin[DQuot[factors.size, 1000], DInt(10)]]

\* const isOpenSource = score > 35
OpenSourceVerdict(factors) ==
  DLess[DInt(Threshold), OpenSourceScore(factors)]

\* The factors object built from the repository metadata and the two counts.
Factors(meta, numContributors, recentActivity) ==
  [forks |-> meta.forks_count,
   stars |-> meta.stargazers_count,
   contributors |-> numContributors,
   hasLicense |-> meta.license,
   issues |-> meta.open_issues_count,
   recentActivity |-> recentActivity,
   size |-> meta.size]

\* ------------------------------------------------------------------------
\* calculateRepoHealthScore
\* ------------------------------------------------------------------------

calculateRepoHealthScore(data) ==
  LET totalIssues == Len(data.issues.open) + Len(data.issues.closed)
      resolution ==
        IF totalIssues > 0
        THEN DTimes[DQuot[Len(data.issues.closed), totalIssues], 40]
        ELSE DInt(30)
      avg == data.issues.avgResolutionTime
      resolutionTimeScore == DMax[DInt(0), DSub[DInt(30), DMin[avg, DInt(30)]]]
      resolutionTime ==
        IF DLess[DInt(0), avg]
        THEN DTimes[DOver[resolutionTimeScore, 30], 30]
        ELSE DInt(0)
      totalPRs == Len(data.pullRequests.all)
      merge ==
        IF totalPRs > 0
        THEN DTimes[DQuot[Len(data.pullRequests.merged), totalPRs], 30]
        ELSE DInt(0)
  IN  DRoundToInt[DAdd[DAdd[DAdd[DInt(0), resolution], resolutionTime], merge]]

\* ------------------------------------------------------------------------
\* fetchRepoData: the partitioned view of the fetched lists
\* ------------------------------------------------------------------------

\* The value of 0 / 0 in the number type: not a number.
NaN ==
  <<0 - 1, 0, 0>>

\* The average without the length test.
AverageDaysUnguarded(times) ==
  IF Len(times) > 0 THEN DQuot[SumSeq(times), Len(times)] ELSE NaN

\* (closed - created) / (1000 * 60 * 60 * 24) averaged, 0 for no item.
AverageDays(times) ==
  IF Len(times) > 0 THEN DQuot[SumSeq(times), Len(times)] ELSE DInt(0)

NotPullRequest(issue) ==
  ~issue.pull_request

IsOpen(item) ==
  item.state = "open"

IsClosed(item) ==
  item.state = "closed"

\* The closed test by state alone.
IsClosedByState(pr) ==
  pr.state = "closed"

IsClosedUnmerged(pr) ==
  pr.state = "closed" /\ pr.merged_at = NoDate

IsMerged(pr) ==
  pr.merged_at # NoDate

\* ------------------------------------------------------------------------
\* generateMonthlyTrends
\* ------------------------------------------------------------------------

\* month.toLocaleString("default", {month: "short", year: "numeric"}): the
\* name of the month of the year, and the year.
MonthLabel(k) ==
  <<(k % 12) + 1, k \div 12>>

\* The months pushed by the loop i = 5 .. 0:
\* new Date(today.getFullYear(), today.getMonth() - i, 1).
TrendMonths(today) ==
  [j \in 1..6 |-> MonthOf(today) - (6 - j)]

\* The test without the upper end of the month.
InBucketSince(date, k) ==
  date # NoDate /\ date >= MonthStart(k)

\* date >= monthData.date && date < nextMonth, nextMonth being the first day
\* of the month after monthData.date; a missing timestamp is in no month.
InBucket(date, k) ==
  date # NoDate /\ date >= MonthStart(k) /\ date < MonthStart(k + 1)

\* The number of dates that fall in month k.
CountInBucket(dates, k) ==
  LET Falls(date) == InBucket(date, k)
  IN  Len(SelectSeq(dates, Falls))

\* The same series with the loop running i = 0 .. 5: newest month first.
generateMonthlyTrendsNewestFirst(items, isPR, today) ==
  [j \in 1..6 |->
     LET k == MonthOf(today) - (j - 1)
     IN  [month |-> MonthLabel(k),
          opened |-> CountInBucket([i \in DOMAIN items |-> items[i].created_at], k),
          closed |-> CountInBucket([i \in DOMAIN items |-> items[i].closed_at], k),
          merged |-> IF isPR
                     THEN CountInBucket([i \in DOMAIN items |-> items[i].merged_at], k)
                     ELSE 0]]

\* generateMonthlyTrends(items, isPR): six month records whose counters are
\* incremented item by item, then formatted.
generateMonthlyTrends(items, isPR, today) ==
  [j \in 1..6 |->
     LET k == TrendMonths(today)[j]
     IN  [month |-> MonthLabel(k),
          opened |-> CountInBucket([i \in DOMAIN items |-> items[i].created_at], k),
          closed |-> CountInBucket([i \in DOMAIN items |-> items[i].closed_at], k),
          merged |-> IF isPR
                     THEN CountInBucket([i \in DOMAIN items |-> items[i].merged_at], k)
                     ELSE 0]]

\* The RepoData object returned by fetchRepoData (the repository metadata
\* apart); today is new Date() of the call.
BuildRepoData(contributorsResponse, issuesResponse, pullsResponse, today) ==
  LET issues == SelectSeq(issuesResponse, NotPullRequest)
      closedIssues == SelectSeq(issues, IsClosed)
      resolutionTimes ==
        [i \in DOMAIN closedIssues |->
           closedIssues[i].closed_at - closedIssues[i].created_at]
      mergedPRs == SelectSeq(pullsResponse, IsMerged)
      mergeTimes ==
        [i \in DOMAIN mergedPRs |-> mergedPRs[i].merged_at - mergedPRs[i].created_at]
  IN  [contributors |-> contributorsResponse,
       issues |-> [all |-> issues,
                   open |-> SelectSeq(issues, IsOpen),
                   closed |-> closedIssues,
                   monthlyTrends |-> generateMonthlyTrends(issues, FALSE, today),
                   avgResolutionTime |-> AverageDays(resolutionTimes)],
       pullRequests |-> [all |-> pullsResponse,
                         open |-> SelectSeq(pullsResponse, IsOpen),
                         closed |-> SelectSeq(pullsResponse, IsClosedUnmerged),
                         merged |-> mergedPRs,
                         monthlyTrends |-> generateMonthlyTrends(pullsResponse, TRUE, today),
                         avgMergeTime |-> AverageDays(mergeTimes)]]

\* ------------------------------------------------------------------------
\* calculateContributorScore: the statistics and the score
\* ------------------------------------------------------------------------

\* owner.toLowerCase() === username.toLowerCase()
IsOwner(owner, username) ==
  ToLowerCase(owner) = ToLowerCase(username)

\* !!userCollaborator && userCollaborator.permissions?.push === true
IsMaintainer(collaborators, username) ==
  LET found == FindIndex([i \in DOMAIN collaborators |->
                              ToLowerCase(collaborators[i].login)
                                = ToLowerCase(username)])
  IN  found # 0 /\ collaborators[found].push

\* The rank taken from the contributor list in the order of the response.
CommitsRankUnsorted(allContributors, username, userCommits) ==
  LET userContributor ==
        FindIndex([i \in DOMAIN allContributors |->
                     ToLowerCase(allContributors[i].login) = ToLowerCase(username)])
  IN  IF userContributor # 0 THEN userContributor
      ELSE IF Len(userCommits) > 0 THEN Len(allContributors) + 1
           ELSE 0

\* The rank of the user by commits: the 1-based position in the contributor
\* list sorted by contributions, contributorCount + 1 for a user outside the
\* list who has fetched commits, 0 otherwise.
CommitsRank(allContributors, username, userCommits) ==
  Only({IF userContributor # 0 THEN userContributor
        ELSE IF Len(userCommits) > 0 THEN Len(allContributors) + 1
             ELSE 0 :
          userContributor \in
            {FindIndex([i \in DOMAIN sortedContributors |->
                          ToLowerCase(sortedContributors[i].login)
                            = ToLowerCase(username)]) :
               sortedContributors \in
                 {SortDescBy(allContributors,
                             [i \in DOMAIN allContributors |->
                                allContributors[i].contributions])}}})

\* threeMonthsAgo.setMonth(threeMonthsAgo.getMonth() - 3)
ThreeMonthsAgo ==
  SetMonthBack(Today, 3)

IsRecentCommit(commit) ==
  IF commit.date # NoDate THEN commit.date > ThreeMonthsAgo ELSE FALSE

\* (recentCommits / userCommits.length) * 100, or 0 without commits.
RecentActivity(userCommits) ==
  IF Len(userCommits) > 0
  THEN DTimes[DQuot[Len(SelectSeq(userCommits, IsRecentCommit)), Len(userCommits)],
              100]
  ELSE DInt(0)

\* const rankScore = commitsRank === 1 ? 40 : Math.max(0, 40 - ...)
RankScore(commitsRank, contributorCount) ==
  LET step == DQuot[40, Min[contributorCount, 10]]
      down == DTimes[step, commitsRank - 1]
  IN  CASE commitsRank = 1 -> DInt(40)
        [] commitsRank = 0 -> DAdd[DInt(40), step]
        [] commitsRank > 1 /\ DLess[down, DInt(40)] -> DSub[DInt(40), down]
        [] OTHER -> DInt(0)

\* The score accumulated by part 1 (commit volume and rank) of the scoring.
CommitPoints(stats) ==
  Only({IF stats.totalCommits > 0 /\ ranked = DInt(0)
        THEN DAdd[ranked, DInt(Min[10, stats.totalCommits])]
        ELSE ranked :
          ranked \in {IF stats.contributorCount > 0
                      THEN DAdd[DInt(0), RankScore(stats.commitsRank,
                                                   stats.contributorCount)]
                      ELSE DInt(0)}})

PRPoints(stats) ==
  IF stats.totalPRs > 0
  THEN DTimes[DQuot[stats.mergedPRs, stats.totalPRs], Min[20, stats.mergedPRs * 2]]
  ELSE DInt(0)

RolePoints(stats) ==
  IF stats.isOwner THEN 20 ELSE IF stats.isMaintainer THEN 15 ELSE 0

ActivityPoints(stats) ==
  DTimes[DOver[stats.recentActivity, 100], 20]

IssuePoints(stats) ==
  Min[10, stats.issuesCreated]

\* Math.max(0, Math.min(100, Math.round(contributorScore)))
ClampScoreUnbounded(raw) ==
  Max[0, DRoundToInt[raw]]

ClampScore(raw) ==
  Max[0, Min[100, DRoundToInt[raw]]]

\* The contributor score (out of 100) of the compiled statistics.
ContributorScore(stats) ==
  ClampScore(DAdd[DAdd[DAdd[DAdd[CommitPoints(stats), PRPoints(stats)],
                            DInt(RolePoints(stats))],
                       ActivityPoints(stats)],
                  DInt(IssuePoints(stats))])

\* Math.round((repoHealthScore * contributorScore) / 100)
TotalScore(repoHealthScore, contributorScore) ==
  DRoundToInt[DQuot[repoHealthScore * contributorScore, 100]]

\* contributionStats of the short-circuit result.
ZeroStats ==
  [totalCommits |-> 0, totalPRs |-> 0, mergedPRs |-> 0, issuesCreated |-> 0,
   issuesClosed |-> 0, isOwner |-> FALSE, isMaintainer |-> FALSE,
   commitsRank |-> 0, contributorCount |-> 0, recentActivity |-> DInt(0)]

\* The value calculateContributorScore returns for a repository that is not
\* open source.
IneligibleResult(username, owner, repo) ==
  [kind |-> "data", username |-> username, repositoryName |-> <<owner, repo>>,
   isOpenSource |-> FALSE, contributorScore |-> 0, totalScore |-> 0,
   login |-> username, contributionStats |-> ZeroStats, repoHealthScore |-> 0]

\* The value calculateContributorScore returns after scoring.
ScoredResult(username, owner, repo, openSource, login, stats, repoHealthScore) ==
  Only({[kind |-> "data", username |-> username, repositoryName |-> <<owner, repo>>,
         isOpenSource |-> openSource, contributorScore |-> contributorScore,
         totalScore |-> TotalScore(repoHealthScore, contributorScore),
         login |-> login, contributionStats |-> stats,
         repoHealthScore |-> repoHealthScore] :
          contributorScore \in {ContributorScore(stats)}})

\* return null
NullResult ==
  [kind |-> "null"]

\* A call that has not returned yet.
Pending ==
  [kind |-> "pending"]

\* An exception that leaves the function.
Thrown ==
  [kind |-> "thrown"]

\* ------------------------------------------------------------------------
\* The data source (GitHub behind octokit)
\* ------------------------------------------------------------------------

NoParent ==
  "none"

Contributor(login, contributions) ==
  [login |-> login, contributions |-> contributions]

Issue(isPullRequest, state, created, closed) ==
  [pull_request |-> isPullRequest, state |-> state, created_at |-> created,
   closed_at |-> closed]

Pull(state, created, closed, merged) ==
  [state |-> state, created_at |-> created, closed_at |-> closed,
   merged_at |-> merged]

Collaborator(login, push) ==
  [login |-> login, push |-> push]

Commit(date) ==
  [date |-> date]

\* A repository nobody has touched: every list empty, every count 0.
BlankRepo(owner) ==
  [owner |-> owner, private |-> FALSE, fork |-> FALSE, parent |-> NoParent,
   forks_count |-> 0, stargazers_count |-> 0, license |-> FALSE,
   open_issues_count |-> 0, size |-> 0,
   contributors |-> <<>>, recent_commits |-> 0,
   issues |-> <<>>, pulls |-> <<>>, collaborators |-> <<>>,
   user_commits |-> <<>>, user_prs |-> 0, user_merged_prs |-> 0,
   user_issues |-> 0]

\* The repositories the data source knows, by name.
\*  app   the user's own project (owner spelled "A"); weighted score 36.
\*  lib   somebody else's project, eligible by a wide margin; the user sent
\*        pull requests but is not among its listed contributors.
\*  fork  the user's fork of lib.
\*  toy   the user's project with weighted score exactly 35.
\*  stray the user's fork whose metadata names no parent.
\*  priv  a private repository of the user.
\*  anon  a repository listed without its owner object.
Catalogue ==
  [app |-> [BlankRepo(LoginUpperA) EXCEPT
              !.stargazers_count = 20, !.license = TRUE,
              !.contributors = <<Contributor(LoginB, 3), Contributor(LoginLowerA, 5)>>,
              !.recent_commits = 0,
              !.issues = <<Issue(FALSE, "closed", Today - 40, Today - 38),
                           Issue(FALSE, "open", Today - 3, NoDate),
                           Issue(TRUE, "open", Today - 2, NoDate)>>,
              !.pulls = <<Pull("closed", Today - 20, Today - 19, Today - 19),
                          Pull("open", Today - 2, NoDate, NoDate)>>,
              !.collaborators = <<Collaborator(LoginUpperA, TRUE)>>,
              !.user_commits = <<Commit(Today - 1), Commit(Today - 30)>>,
              !.user_prs = 10, !.user_merged_prs = 10, !.user_issues = 12],
   lib |-> [BlankRepo(LoginB) EXCEPT
              !.forks_count = 60, !.stargazers_count = 120, !.license = TRUE,
              !.open_issues_count = 7, !.size = 4200,
              !.contributors = <<Contributor(LoginB, 9)>>,
              !.recent_commits = 12,
              !.issues = <<Issue(FALSE, "closed", Today - 10, Today - 9)>>,
              !.pulls = <<Pull("closed", Today - 8, Today - 7, Today - 7),
                          Pull("closed", Today - 6, Today - 5, NoDate)>>,
              !.collaborators = <<Collaborator(LoginB, TRUE),
                                  Collaborator(LoginLowerA, TRUE)>>,
              !.user_commits = <<Commit(Today - 5), Commit(Today - 200)>>,
              !.user_prs = 3, !.user_merged_prs = 2, !.user_issues = 1],
   fork |-> [BlankRepo(LoginLowerA) EXCEPT
              !.fork = TRUE, !.parent = "lib", !.license = TRUE],
   toy |-> [BlankRepo(LoginLowerA) EXCEPT
              !.license = TRUE,
              !.contributors = <<Contributor(LoginLowerA, 1), Contributor(LoginB, 1),
                                 Contributor(LoginB, 1)>>,
              !.user_commits = <<Commit(Today - 1)>>],
   stray |-> [BlankRepo(LoginLowerA) EXCEPT
              !.fork = TRUE, !.license = TRUE, !.stargazers_count = 100,
              !.user_commits = <<Commit(NoDate), Commit(Today - 2)>>,
              !.user_issues = 3],
   priv |-> [BlankRepo(LoginLowerA) EXCEPT
              !.private = TRUE, !.license = TRUE, !.stargazers_count = 100],
   anon |-> [BlankRepo(<<>>) EXCEPT
              !.license = TRUE, !.stargazers_count = 100]]

\* An entry of the list octokit.repos.listForUser returns; hasOwner is false
\* for an entry whose owner object is missing.
ListEntry(known, name) ==
  [name |-> name, hasOwner |-> known[name].owner # <<>>,
   private |-> known[name].private, fork |-> known[name].fork]

\* The sequences of at most n distinct elements of S.
SeqsUpTo(S, n) ==
  UNION {{q \in [1..k -> S] : \A i, j \in 1..k : i # j => q[i] # q[j]} : k \in 0..n}

\* ------------------------------------------------------------------------
\* State
\* ------------------------------------------------------------------------

VARIABLES
  entry,     \* the exported function the caller invoked: "value", "score", "repo"
  username,  \* its username argument
  remote,    \* the data source: [world: its repositories, list: the user's list]
  apc,       \* position of calculateOpenSourceValue
  repos,     \* userReposResponse.data
  result,    \* the accumulator shared by the per-repository tasks
  pc,        \* per task: the lookup it awaits, or "none", "returned", "done"
  loc,       \* per task: the local variables
  ret,       \* per task: what calculateContributorScore returned
  issued,    \* per task: the lookups sent to the data source so far
  failed,    \* per task: the lookups that failed
  out        \* what the caller of the entry point received

vars ==
  <<entry, username, remote, apc, repos, result, pc, loc, ret, issued, failed, out>>

Tasks ==
  1..MaxRepos

\* The local variables of one task before anything is assigned.
NoLocals ==
  [repo |-> "none", owner |-> <<>>, threw |-> FALSE,
   classified |-> FALSE, openSource |-> FALSE,
   numContributors |-> 0,
   contributorsResponse |-> <<>>, issuesResponse |-> <<>>,
   allContributors |-> <<>>, repoHealthScore |-> 0,
   login |-> <<>>, isMaintainer |-> FALSE, userCommits |-> <<>>,
   totalPRs |-> 0, mergedPRs |-> 0]

\* const result = { username, totalScore: 0, repositories: [] }
EmptyValue(user) ==
  [kind |-> "value", username |-> user, totalScore |-> 0, repositories |-> <<>>]

\* One eligible repository described by a few choices:
\*  role      what the user is there: "owner", "maintainer" (collaborator with
\*            push permission) or "reader" (collaborator without)
\*  ranked    where the user stands in the contributor list: "top", "low",
\*            "absent" (others are listed) or "empty" (nobody is listed)
\*  commits   the user's commits: "none", "recent" or "mixed"
\*  prs       <<pull requests, merged pull requests>> of the user
\*  issues    the number of issues the user created
\*  activity  the repository's issues and pull requests: "none" or "some"
SampleRepo(w) ==
  [BlankRepo(IF w.role = "owner" THEN LoginUpperA ELSE LoginB) EXCEPT
     !.license = TRUE, !.stargazers_count = 100,
     !.contributors =
        CASE w.ranked = "top" -> <<Contributor(LoginB, 3), Contributor(LoginUpperA, 5)>>
          [] w.ranked = "low" -> <<Contributor(LoginB, 9), Contributor(LoginC, 4),
                                   Contributor(LoginLowerA, 2)>>
          [] w.ranked = "absent" -> <<Contributor(LoginB, 9), Contributor(LoginC, 4)>>
          [] OTHER -> <<>>,
     !.collaborators = <<Collaborator(LoginB, TRUE),
                         Collaborator(LoginUpperA, w.role # "reader")>>,
     !.user_commits =
        CASE w.commits = "recent" -> <<Commit(Today - 1), Commit(Today - 30)>>
          [] w.commits = "mixed" -> <<Commit(Today - 1), Commit(NoDate),
                                      Commit(Today - 200)>>
          [] OTHER -> <<>>,
     !.user_prs = w.prs[1], !.user_merged_prs = w.prs[2],
     !.user_issues = w.issues,
     !.issues =
        IF w.activity = "some"
        THEN <<Issue(FALSE, "closed", Today - 40, Today - 33),
               Issue(FALSE, "closed", Today - 20, Today - 12),
               Issue(FALSE, "open", Today - 3, NoDate),
               Issue(TRUE, "closed", Today - 9, Today - 8)>>
        ELSE <<>>,
     !.pulls =
        IF w.activity = "some"
        THEN <<Pull("closed", Today - 9, Today - 8, Today - 8),
               Pull("closed", Today - 6, Today - 5, NoDate),
               Pull("open", Today - 2, NoDate, NoDate)>>
        ELSE <<>>]

SampleWorlds ==
  {[world |-> [kind |-> "sample", role |-> role, ranked |-> ranked,
               commits |-> commits, prs |-> prs, issues |-> issues,
               activity |-> activity],
    list |-> <<>>] :
     role \in {"owner", "maintainer", "reader"},
     ranked \in {"top", "low", "absent", "empty"},
     commits \in {"none", "recent", "mixed"},
     prs \in {<<0, 0>>, <<3, 1>>, <<10, 10>>},
     issues \in {0, 12},
     activity \in {"none", "some"}}

\* One public repository of somebody else, described by what the classifier
\* reads of it: the counts of the metadata, the length of the contributor list
\* and the number of commits of the last six months.
FactorRepo(w) ==
  [BlankRepo(LoginB) EXCEPT
     !.forks_count = w.forks, !.stargazers_count = w.stars,
     !.license = w.hasLicense, !.open_issues_count = w.issues,
     !.size = w.size,
     !.contributors = [i \in 1..w.contributors |-> Contributor(LoginC, 1)],
     !.recent_commits = w.recentActivity]

FactorWorlds ==
  {[world |-> [kind |-> "factors", forks |-> forks, stars |-> stars,
               contributors |-> contributors, hasLicense |-> hasLicense,
               issues |-> issues, recentActivity |-> recentActivity,
               size |-> size],
    list |-> <<>>] :
     forks \in {0, 2, 60},
     stars \in {0, 2, 120},
     contributors \in {0, 2, 3},
     hasLicense \in BOOLEAN,
     issues \in {0, 8},
     recentActivity \in {0, 1},
     size \in {0, 12000}}

\* One eligible repository of somebody else, described by what the health
\* scorer reads of it: open issues, closed issues that took days days in
\* total to resolve, merged pull requests and pull requests closed unmerged.
HealthRepo(w) ==
  [BlankRepo(LoginB) EXCEPT
     !.license = TRUE, !.stargazers_count = 100,
     !.issues =
        [i \in 1..w.closed |->
           Issue(FALSE, "closed", Today - (IF i = 1 THEN w.days ELSE 0), Today)]
        \o [i \in 1..w.open |-> Issue(FALSE, "open", Today - 3, NoDate)],
     !.pulls =
        [i \in 1..w.merged |-> Pull("closed", Today - 1, Today, Today)]
        \o [i \in 1..w.unmerged |-> Pull("closed", Today - 1, Today, NoDate)]]

HealthWorlds ==
  {[world |-> [kind |-> "health", open |-> open, closed |-> closed,
               days |-> days, merged |-> merged, unmerged |-> unmerged],
    list |-> <<>>] :
     open \in {0, 2, 3},
     closed \in {0, 1, 6},
     days \in {0, 1, 151},
     merged \in {0, 2},
     unmerged \in {0, 7}}

\* One eligible repository of somebody else, described by what the commit
\* ranking reads of it: the number of listed contributors, the user's place
\* among them by contributions (0: not listed) and the number of the user's
\* commits, all of them recent.
RankRepo(w) ==
  [BlankRepo(LoginB) EXCEPT
     !.license = TRUE, !.stargazers_count = 100,
     !.contributors =
        [i \in 1..w.contributorCount |->
           Contributor(IF i = w.place THEN LoginUpperA ELSE LoginB,
                       w.contributorCount - i + 1)],
     !.user_commits = [i \in 1..w.commits |-> Commit(Today - 1)]]

RankWorlds ==
  {w \in {[world |-> [kind |-> "rank", contributorCount |-> contributorCount,
                      place |-> place, commits |-> commits],
           list |-> <<>>] :
            contributorCount \in {0, 1, 3, 5, 10},
            place \in 0..10,
            commits \in {0, 1, 10}} :
     w.world.place <= w.world.contributorCount}

\* One repository of somebody else described by its history: the issues and
\* pull requests the data source lists for it, with timestamps counted back
\* from the day of the call.
IssueHistories(today) ==
  LET recent == Issue(FALSE, "open", today - 5, NoDate)
      slow == Issue(FALSE, "closed", today - 40, today - 5)
      old == Issue(FALSE, "closed", today - 200, today - 100)
      ancient == Issue(FALSE, "closed", today - 250, today - 230)
      pull == Issue(TRUE, "closed", today - 9, today - 8)
      quick == Issue(FALSE, "closed", today, today)
  IN  <<<<>>, <<recent>>, <<pull>>, <<slow, recent, pull>>, <<old, ancient>>,
        <<recent, slow, old, ancient, pull, quick>>>>

PullHistories(today) ==
  LET open == Pull("open", today - 2, NoDate, NoDate)
      merged == Pull("closed", today - 40, today - 33, today - 33)
      rejected == Pull("closed", today - 70, today - 10, NoDate)
      ancient == Pull("closed", today - 220, today - 190, today - 190)
      late == Pull("closed", today - 190, today - 1, today - 1)
  IN  <<<<>>, <<open>>, <<rejected>>, <<merged, open>>, <<rejected, open>>,
        <<open, merged, rejected, ancient, late>>>>

HistoryRepo(w) ==
  [BlankRepo(LoginB) EXCEPT
     !.contributors = <<Contributor(LoginB, 9)>>,
     !.issues = IssueHistories(w.today)[w.issues],
     !.pulls = PullHistories(w.today)[w.pulls]]

\* The days of the call: 31 May and 15 January of year 1, 31 March of year 2.
HistoryWorlds ==
  {[world |-> [kind |-> "history", today |-> today, issues |-> issues,
               pulls |-> pulls],
    list |-> <<>>] :
     today \in {Today, MonthStart(12) + 14, MonthStart(26) + 30},
     issues \in 1..6,
     pulls \in 1..6}

\* The repositories of the data source, by name.
Repositories ==
  CASE remote.world.kind = "catalogue" -> Catalogue
    [] remote.world.kind = "sample" -> [repo |-> SampleRepo(remote.world)]
    [] remote.world.kind = "factors" -> [repo |-> FactorRepo(remote.world)]
    [] remote.world.kind = "health" -> [repo |-> HealthRepo(remote.world)]
    [] remote.world.kind = "rank" -> [repo |-> RankRepo(remote.world)]
    [] remote.world.kind = "history" -> [repo |-> HistoryRepo(remote.world)]

\* new Date() at the time of the call.
Now ==
  IF remote.world.kind = "history" THEN remote.world.today ELSE Today

\* The states right after the caller's invocation: the function has run up to
\* its first await, so its first lookup is already on its way.
InitWith(entries, users, worlds) ==
  /\ entry \in entries
  /\ username \in users
  /\ remote \in worlds
  /\ repos = <<>>
  /\ result = EmptyValue(username)
  /\ ret = [t \in Tasks |-> Pending]
  /\ failed = [t \in Tasks |-> {}]
  /\ out = Pending
  /\ IF entry = "value"
     THEN /\ apc = "list"
          /\ pc = [t \in Tasks |-> "none"]
          /\ loc = [t \in Tasks |-> NoLocals]
          /\ issued = [t \in Tasks |-> {}]
     ELSE /\ apc = "none"
          /\ remote.list = <<>>
          /\ \E name \in DOMAIN Repositories :
               /\ Repositories[name].owner # <<>>
               /\ loc = [t \in Tasks |->
                           IF t = 1
                           THEN [NoLocals EXCEPT !.repo = name,
                                                 !.owner = Repositories[name].owner]
                           ELSE NoLocals]
               /\ pc = [t \in Tasks |->
                          IF t # 1 THEN "none"
                          ELSE IF entry = "score" THEN "os_get" ELSE "rd_get"]
               /\ issued = [t \in Tasks |->
                              IF t # 1 THEN {}
                              ELSE IF entry = "score" THEN {"os_get"} ELSE {"rd_get"}]

\* The user's repository list: up to MaxRepos distinct entries of the
\* catalogue in any order.
CatalogueWorlds ==
  {[world |-> [kind |-> "catalogue"], list |-> [i \in DOMAIN names |-> ListEntry(Catalogue, names[i])]] :
     names \in SeqsUpTo(DOMAIN Catalogue, MaxRepos)}

Init ==
  InitWith({"value", "score", "repo"}, {LoginLowerA}, CatalogueWorlds)

\* ------------------------------------------------------------------------
\* Steps shared by the actions
\* ------------------------------------------------------------------------

Repo(t) ==
  Repositories[loc[t].repo]

\* The values bound by a quantifier over a one-element set in the actions
\* below are the `const` locals of the code: computed once, then used.

\* The outcomes the next response may have: a success, or a failure.
Failures ==
  LET RECURSIVE Count(_)
      Count(n) == IF n = 0 THEN 0 ELSE Cardinality(failed[n]) + Count(n - 1)
  IN  Count(MaxRepos)

Outcomes ==
  IF entry = "value" /\ Failures >= MaxFailures THEN {TRUE} ELSE BOOLEAN

\* The response of the lookup task t awaits arrives; ok tells whether it is a
\* success.  The next lookup (if any) is sent in the same step.
Answered(t, lookup, ok, next) ==
  /\ failed' = [failed EXCEPT ![t] = IF ok THEN @ ELSE @ \cup {lookup}]
  /\ issued' = [issued EXCEPT ![t] = IF next = "none" THEN @ ELSE @ \cup {next}]

\* calculateContributorScore returns value: to its direct caller, or to the
\* per-repository task of calculateOpenSourceValue, which resumes later.
Returns(t, value) ==
  /\ pc' = [pc EXCEPT ![t] = IF entry = "value" THEN "returned" ELSE "done"]
  /\ ret' = [ret EXCEPT ![t] = value]
  /\ out' = IF entry = "score" THEN value ELSE out

\* isOpenSourceRepo returned openSource to calculateContributorScore, which
\* returns the zero result or goes on to fetchRepoData.
ClassifiedNoShortCircuit(t, openSource) ==
  /\ loc' = [loc EXCEPT ![t].classified = TRUE, ![t].openSource = openSource,
                        ![t].numContributors = 0]
  /\ pc' = [pc EXCEPT ![t] = "rd_get"]
  /\ UNCHANGED <<ret, out>>

Classified(t, openSource) ==
  /\ loc' = [loc EXCEPT ![t].classified = TRUE, ![t].openSource = openSource,
                        ![t].numContributors = 0]
  /\ IF openSource
     THEN /\ pc' = [pc EXCEPT ![t] = "rd_get"]
          /\ UNCHANGED <<ret, out>>
     ELSE Returns(t, IneligibleResult(username, loc[t].owner, loc[t].repo))

\* The lookup calculateContributorScore sends after a verdict.
AfterVerdictAlways(openSource) ==
  "rd_get"

AfterVerdict(openSource) ==
  IF openSource THEN "rd_get" ELSE "none"

\* An exception inside fetchRepoData: logged and thrown again; the catch of
\* calculateContributorScore turns it into null, a direct caller receives it.
RepoDataThrowsUncaught(t) ==
  /\ loc' = [loc EXCEPT ![t].contributorsResponse = <<>>, ![t].issuesResponse = <<>>]
  /\ pc' = [pc EXCEPT ![t] = "done"]
  /\ out' = Thrown
  /\ UNCHANGED ret

RepoDataThrows(t) ==
  /\ loc' = [loc EXCEPT ![t].contributorsResponse = <<>>, ![t].issuesResponse = <<>>]
  /\ IF entry = "repo"
     THEN /\ pc' = [pc EXCEPT ![t] = "done"]
          /\ out' = Thrown
          /\ UNCHANGED ret
     ELSE Returns(t, NullResult)

\* contributionStats as compiled at the end of calculateContributorScore.
CompileStats(t, issuesCreated) ==
  LET allContributors == loc[t].allContributors
  IN  [totalCommits |-> Len(loc[t].userCommits),
       totalPRs |-> loc[t].totalPRs,
       mergedPRs |-> loc[t].mergedPRs,
       issuesCreated |-> issuesCreated,
       issuesClosed |-> 0,
       isOwner |-> IsOwner(loc[t].owner, username),
       isMaintainer |-> loc[t].isMaintainer,
       commitsRank |-> CommitsRank(allContributors, username, loc[t].userCommits),
       contributorCount |-> Len(allContributors),
       recentActivity |-> RecentActivity(loc[t].userCommits)]

\* ------------------------------------------------------------------------
\* isOpenSourceRepo, called at the start of calculateContributorScore
\* ------------------------------------------------------------------------

\* octokit.repos.get answers.
ClassifierRepoIgnoresPrivate(t) ==
  /\ pc[t] = "os_get"
  /\ \E ok \in Outcomes :
       IF ok
       THEN /\ Answered(t, "os_get", ok, "os_contributors")
            /\ pc' = [pc EXCEPT ![t] = "os_contributors"]
            /\ UNCHANGED <<loc, ret, out>>
       ELSE /\ Answered(t, "os_get", ok, AfterVerdict(FALSE))
            /\ Classified(t, FALSE)
  /\ UNCHANGED <<entry, username, remote, apc, repos, result>>

\* octokit.repos.get answers.  A failure is caught by the outer catch
\* (return false); a private repository returns false at once.
ClassifierRepo(t) ==
  /\ pc[t] = "os_get"
  /\ \E ok \in Outcomes :
       IF ok /\ ~Repo(t).private
       THEN /\ Answered(t, "os_get", ok, "os_contributors")
            /\ pc' = [pc EXCEPT ![t] = "os_contributors"]
            /\ UNCHANGED <<loc, ret, out>>
       ELSE /\ Answered(t, "os_get", ok, AfterVerdict(FALSE))
            /\ Classified(t, FALSE)
  /\ UNCHANGED <<entry, username, remote, apc, repos, result>>

\* octokit.repos.listContributors answers; a failure ends the classification
\* with false.
ClassifierContributorsAborting(t) ==
  /\ pc[t] = "os_contributors"
  /\ \E ok \in Outcomes :
       IF ok
       THEN /\ Answered(t, "os_contributors", ok, "os_commits")
            /\ loc' = [loc EXCEPT ![t].numContributors =
                         Len(Take(Repo(t).contributors, ClassifierPerPage))]
            /\ pc' = [pc EXCEPT ![t] = "os_commits"]
            /\ UNCHANGED <<ret, out>>
       ELSE /\ Answered(t, "os_contributors", ok, AfterVerdict(FALSE))
            /\ Classified(t, FALSE)
  /\ UNCHANGED <<entry, username, remote, apc, repos, result>>

\* octokit.repos.listContributors (per_page 100) answers; a failure leaves
\* numContributors at 0.
ClassifierContributors(t) ==
  /\ pc[t] = "os_contributors"
  /\ \E ok \in Outcomes :
       /\ Answered(t, "os_contributors", ok, "os_commits")
       /\ loc' = [loc EXCEPT ![t].numContributors =
                    IF ok THEN Len(Take(Repo(t).contributors, ClassifierPerPage))
                    ELSE 0]
  /\ pc' = [pc EXCEPT ![t] = "os_commits"]
  /\ UNCHANGED <<entry, username, remote, apc, repos, result, ret, out>>

\* octokit.repos.listCommits (since six months ago, per_page 100) answers; a
\* failure leaves recentActivity at 0.  The score is computed and the verdict
\* returned.
ClassifierCommits(t) ==
  /\ pc[t] = "os_commits"
  /\ \E ok \in Outcomes :
       \E recentActivity \in
            {IF ok THEN Min[Repo(t).recent_commits, CommitsPerPage] ELSE 0} :
         \E openSource \in
              {OpenSourceVerdict(Factors(Repo(t), loc[t].numContributors,
                                         recentActivity))} :
           /\ Answered(t, "os_commits", ok, AfterVerdict(openSource))
           /\ Classified(t, openSource)
  /\ UNCHANGED <<entry, username, remote, apc, repos, result>>

\* ------------------------------------------------------------------------
\* fetchRepoData
\* ------------------------------------------------------------------------

\* octokit.repos.get answers.
RepoDataRepo(t) ==
  /\ pc[t] = "rd_get"
  /\ \E ok \in Outcomes :
       IF ok
       THEN /\ Answered(t, "rd_get", ok, "rd_contributors")
            /\ pc' = [pc EXCEPT ![t] = "rd_contributors"]
            /\ UNCHANGED <<loc, ret, out>>
       ELSE /\ Answered(t, "rd_get", ok, "none")
            /\ RepoDataThrows(t)
  /\ UNCHANGED <<entry, username, remote, apc, repos, result>>

\* octokit.repos.listContributors (per_page 10) answers.
RepoDataContributors(t) ==
  /\ pc[t] = "rd_contributors"
  /\ \E ok \in Outcomes :
       IF ok
       THEN /\ Answered(t, "rd_contributors", ok, "rd_issues")
            /\ pc' = [pc EXCEPT ![t] = "rd_issues"]
            /\ loc' = [loc EXCEPT ![t].contributorsResponse =
                         Take(Repo(t).contributors, RepoDataContributorsPerPage)]
            /\ UNCHANGED <<ret, out>>
       ELSE /\ Answered(t, "rd_contributors", ok, "none")
            /\ RepoDataThrows(t)
  /\ UNCHANGED <<entry, username, remote, apc, repos, result>>

\* octokit.issues.listForRepo (state all, per_page 100) answers.
RepoDataIssues(t) ==
  /\ pc[t] = "rd_issues"
  /\ \E ok \in Outcomes :
       IF ok
       THEN /\ Answered(t, "rd_issues", ok, "rd_pulls")
            /\ pc' = [pc EXCEPT ![t] = "rd_pulls"]
            /\ loc' = [loc EXCEPT ![t].issuesResponse = Take(Repo(t).issues, ListPerPage)]
            /\ UNCHANGED <<ret, out>>
       ELSE /\ Answered(t, "rd_issues", ok, "none")
            /\ RepoDataThrows(t)
  /\ UNCHANGED <<entry, username, remote, apc, repos, result>>

\* octokit.pulls.list (state all, per_page 100) answers and fetchRepoData
\* returns: to its direct caller, or to calculateContributorScore, which
\* computes the health score and asks for the user's profile.
RepoDataPulls(t) ==
  /\ pc[t] = "rd_pulls"
  /\ \E ok \in Outcomes :
       IF ok
       THEN /\ Answered(t, "rd_pulls", ok, IF entry = "repo" THEN "none" ELSE "user")
            /\ pc' = [pc EXCEPT ![t] = IF entry = "repo" THEN "done" ELSE "user"]
            /\ UNCHANGED ret
            /\ \E repoData \in {BuildRepoData(loc[t].contributorsResponse,
                                                loc[t].issuesResponse,
                                                Take(Repo(t).pulls, ListPerPage), Now)} :
                 IF entry = "repo"
                 THEN /\ out' = [kind |-> "repoData", data |-> repoData]
                      /\ loc' = [loc EXCEPT ![t].contributorsResponse = <<>>,
                                            ![t].issuesResponse = <<>>]
                 ELSE /\ loc' = [loc EXCEPT
                                   ![t].contributorsResponse = <<>>,
                                   ![t].issuesResponse = <<>>,
                                   ![t].allContributors = repoData.contributors,
                                   ![t].repoHealthScore = calculateRepoHealthScore(repoData)]
                      /\ UNCHANGED out
       ELSE /\ Answered(t, "rd_pulls", ok, "none")
            /\ RepoDataThrows(t)
  /\ UNCHANGED <<entry, username, remote, apc, repos, result>>

\* ------------------------------------------------------------------------
\* calculateContributorScore after fetchRepoData
\* ------------------------------------------------------------------------

\* octokit.users.getByUsername answers; it is awaited outside any inner try,
\* so a failure reaches the outer catch (return null).
UserProfile(t) ==
  /\ pc[t] = "user"
  /\ \E ok \in Outcomes :
       IF ok
       THEN /\ Answered(t, "user", ok, "collab")
            /\ pc' = [pc EXCEPT ![t] = "collab"]
            /\ loc' = [loc EXCEPT ![t].login = ToLowerCase(username)]
            /\ UNCHANGED <<ret, out>>
       ELSE /\ Answered(t, "user", ok, "none")
            /\ UNCHANGED loc
            /\ Returns(t, NullResult)
  /\ UNCHANGED <<entry, username, remote, apc, repos, result>>

\* octokit.repos.listCollaborators answers; a failure leaves isMaintainer
\* false.
Collaborators(t) ==
  /\ pc[t] = "collab"
  /\ \E ok \in Outcomes :
       /\ Answered(t, "collab", ok, "commits")
       /\ loc' = [loc EXCEPT ![t].isMaintainer =
                    IF ok THEN IsMaintainer(Repo(t).collaborators, username)
                    ELSE FALSE]
  /\ pc' = [pc EXCEPT ![t] = "commits"]
  /\ UNCHANGED <<entry, username, remote, apc, repos, result, ret, out>>

\* octokit.repos.listCommits (author, per_page 100) answers; a failure leaves
\* userCommits empty.
UserCommits(t) ==
  /\ pc[t] = "commits"
  /\ \E ok \in Outcomes :
       /\ Answered(t, "commits", ok, "prs")
       /\ loc' = [loc EXCEPT ![t].userCommits =
                    IF ok THEN Take(Repo(t).user_commits, CommitsPerPage)
                    ELSE <<>>]
  /\ pc' = [pc EXCEPT ![t] = "prs"]
  /\ UNCHANGED <<entry, username, remote, apc, repos, result, ret, out>>

\* The search for the user's pull requests answers.  The search for the
\* merged ones is sent from the same try block, so a failure here skips it.
UserPRs(t) ==
  /\ pc[t] = "prs"
  /\ \E ok \in Outcomes :
       IF ok
       THEN /\ Answered(t, "prs", ok, "merged")
            /\ pc' = [pc EXCEPT ![t] = "merged"]
            /\ loc' = [loc EXCEPT ![t].totalPRs = Repo(t).user_prs]
       ELSE /\ Answered(t, "prs", ok, "issues")
            /\ pc' = [pc EXCEPT ![t] = "issues"]
            /\ UNCHANGED loc
  /\ UNCHANGED <<entry, username, remote, apc, repos, result, ret, out>>

\* The search for the user's merged pull requests answers; a failure leaves
\* mergedPRs at 0 and totalPRs as assigned.
MergedPRs(t) ==
  /\ pc[t] = "merged"
  /\ \E ok \in Outcomes :
       /\ Answered(t, "merged", ok, "issues")
       /\ loc' = [loc EXCEPT ![t].mergedPRs =
                    IF ok THEN Repo(t).user_merged_prs ELSE 0]
  /\ pc' = [pc EXCEPT ![t] = "issues"]
  /\ UNCHANGED <<entry, username, remote, apc, repos, result, ret, out>>

\* The search for the issues the user created answers; a failure leaves
\* issuesCreated at 0.  The statistics are compiled, the scores computed and
\* the result returned.
UserIssues(t) ==
  /\ pc[t] = "issues"
  /\ \E ok \in Outcomes :
       /\ Answered(t, "issues", ok, "none")
       /\ Returns(t, Only({ScoredResult(username, loc[t].owner, loc[t].repo,
                                        loc[t].openSource, loc[t].login,
                                        contributionStats, loc[t].repoHealthScore) :
                             contributionStats \in
                               {CompileStats(t, IF ok THEN Repo(t).user_issues
                                                ELSE 0)}}))
  /\ UNCHANGED <<entry, username, remote, apc, repos, result, loc>>

\* ------------------------------------------------------------------------
\* calculateOpenSourceValue
\* ------------------------------------------------------------------------

\* The task of list entry e run up to its first await: a private repository
\* returns at once, a missing owner object throws (caught by the task's own
\* catch), a fork asks for its details, any other repository enters
\* calculateContributorScore, whose first await is the classifier's lookup.
FirstAwait(e) ==
  IF e.private \/ ~e.hasOwner THEN "done"
  ELSE IF e.fork THEN "fork_get"
       ELSE "os_get"

StartLocals(e) ==
  IF e.private THEN NoLocals
  ELSE IF ~e.hasOwner THEN [NoLocals EXCEPT !.threw = TRUE]
       ELSE [NoLocals EXCEPT !.repo = e.name, !.owner = Repositories[e.name].owner]

\* The value the catch of calculateOpenSourceValue returns.
CaughtValueRethrown(user) ==
  Thrown

CaughtValue(user) ==
  EmptyValue(user)

\* octokit.repos.listForUser answers.  On success the result object is
\* created and repos.map starts every task; on failure the catch returns the
\* zero value.
ListRepos ==
  /\ apc = "list"
  /\ \E ok \in Outcomes :
       IF ok
       THEN LET fetched == Take(remote.list, ListPerPage)
            IN  /\ repos' = fetched
                /\ result' = EmptyValue(username)
                /\ pc' = [t \in Tasks |->
                            IF t <= Len(fetched) THEN FirstAwait(fetched[t]) ELSE "none"]
                /\ loc' = [t \in Tasks |->
                             IF t <= Len(fetched) THEN StartLocals(fetched[t])
                             ELSE NoLocals]
                /\ issued' = [t \in Tasks |->
                                IF t <= Len(fetched) /\ FirstAwait(fetched[t]) # "done"
                                THEN {FirstAwait(fetched[t])} ELSE {}]
                /\ apc' = "settle"
                /\ UNCHANGED out
       ELSE /\ apc' = "caught"
            /\ out' = CaughtValue(username)
            /\ UNCHANGED <<repos, result, pc, loc, issued>>
  /\ UNCHANGED <<entry, username, remote, ret, failed>>

\* The details of a fork answer (octokit.repos.get).
ForkResolvedOrAbandoned(t) ==
  /\ pc[t] = "fork_get"
  /\ \E ok \in Outcomes :
       IF ok /\ Repo(t).parent # NoParent
       THEN /\ Answered(t, "fork_get", ok, "os_get")
            /\ loc' = [loc EXCEPT ![t].repo = Repo(t).parent,
                                  ![t].owner = Repositories[Repo(t).parent].owner]
            /\ pc' = [pc EXCEPT ![t] = "os_get"]
       ELSE /\ Answered(t, "fork_get", ok, "none")
            /\ loc' = [loc EXCEPT ![t].threw = TRUE]
            /\ pc' = [pc EXCEPT ![t] = "done"]
  /\ UNCHANGED <<entry, username, remote, apc, repos, result, ret, out>>

\* The details of a fork answer (octokit.repos.get).  With a parent in the
\* answer the task goes on with the parent's owner and name, otherwise (and
\* on failure) with the fork's own; calculateContributorScore is entered.
ForkResolved(t) ==
  /\ pc[t] = "fork_get"
  /\ \E ok \in Outcomes :
       /\ Answered(t, "fork_get", ok, "os_get")
       /\ loc' = IF ok /\ Repo(t).parent # NoParent
                 THEN [loc EXCEPT ![t].repo = Repo(t).parent,
                                  ![t].owner = Repositories[Repo(t).parent].owner]
                 ELSE loc
  /\ pc' = [pc EXCEPT ![t] = "os_get"]
  /\ UNCHANGED <<entry, username, remote, apc, repos, result, ret, out>>

\* The entry result.repositories.push receives.
Summary(t, contributorData) ==
  [name |-> loc[t].repo,
   fullName |-> <<loc[t].owner, loc[t].repo>>,
   contributorScore |-> contributorData.contributorScore,
   isOpenSource |-> contributorData.isOpenSource,
   url |-> <<loc[t].owner, loc[t].repo>>]

\* if (contributorData.isOpenSource) result.totalScore += contributorScore
AddToTotalWeighted(total, contributorData) ==
  IF contributorData.isOpenSource THEN total + contributorData.totalScore ELSE total

AddToTotal(total, contributorData) ==
  IF contributorData.isOpenSource
  THEN total + contributorData.contributorScore
  ELSE total

\* The task resumes with the value of calculateContributorScore: a non-null
\* value is appended and counted, in one uninterrupted step.
AppendEntryAborting(t) ==
  /\ pc[t] = "returned"
  /\ IF ret[t].kind = "data"
     THEN /\ result' = [result EXCEPT
                          !.repositories = Append(@, Summary(t, ret[t])),
                          !.totalScore = AddToTotal(@, ret[t])]
          /\ UNCHANGED <<apc, out>>
     ELSE /\ apc' = "caught"
          /\ out' = EmptyValue(username)
          /\ UNCHANGED result
  /\ pc' = [pc EXCEPT ![t] = "done"]
  /\ UNCHANGED <<entry, username, remote, repos, loc, ret, issued, failed>>

\* The task resumes, appends, is suspended once more and adds to the total
\* when it resumes again.
AppendEntryInTwoSteps(t) ==
  /\ \/ /\ pc[t] = "returned"
        /\ result' = IF ret[t].kind = "data"
                     THEN [result EXCEPT !.repositories = Append(@, Summary(t, ret[t]))]
                     ELSE result
        /\ pc' = [pc EXCEPT ![t] = IF ret[t].kind = "data" THEN "appended" ELSE "done"]
     \/ /\ pc[t] = "appended"
        /\ result' = [result EXCEPT !.totalScore = AddToTotal(@, ret[t])]
        /\ pc' = [pc EXCEPT ![t] = "done"]
  /\ UNCHANGED <<entry, username, remote, apc, repos, loc, ret, issued, failed, out>>

AppendEntryAlways(t) ==
  /\ pc[t] = "returned"
  /\ result' = IF ret[t].kind = "data"
               THEN [result EXCEPT
                       !.repositories = Append(@, Summary(t, ret[t])),
                       !.totalScore = AddToTotal(@, ret[t])]
               ELSE [result EXCEPT
                       !.repositories =
                          Append(@, Summary(t, IneligibleResult(username, loc[t].owner,
                                                                loc[t].repo)))]
  /\ pc' = [pc EXCEPT ![t] = "done"]
  /\ UNCHANGED <<entry, username, remote, apc, repos, loc, ret, issued, failed, out>>

AppendEntry(t) ==
  /\ pc[t] = "returned"
  /\ result' = IF ret[t].kind = "data"
               THEN [result EXCEPT
                       !.repositories = Append(@, Summary(t, ret[t])),
                       !.totalScore = AddToTotal(@, ret[t])]
               ELSE result
  /\ pc' = [pc EXCEPT ![t] = "done"]
  /\ UNCHANGED <<entry, username, remote, apc, repos, loc, ret, issued, failed, out>>

\* The keys of result.repositories.sort((a, b) => b.contributorScore - ...).
SummaryScores(repositories) ==
  [i \in DOMAIN repositories |-> repositories[i].contributorScore]

\* Promise.allSettled resolves once every task has settled; the list is
\* sorted in place and the result returned.
AllSettledWithData ==
  /\ apc = "settle"
  /\ \A t \in Tasks : pc[t] \in {"none", "done"} /\ ret[t] # NullResult /\ ~loc[t].threw
  /\ \E sorted \in {SortDescBy(result.repositories, SummaryScores(result.repositories))} :
       /\ result' = [result EXCEPT !.repositories = sorted]
       /\ out' = [result EXCEPT !.repositories = sorted]
  /\ apc' = "done"
  /\ UNCHANGED <<entry, username, remote, repos, pc, loc, ret, issued, failed>>

\* The sort and the return without waiting for the tasks.
AllSettledEarly ==
  /\ apc = "settle"
  /\ \E sorted \in {SortDescBy(result.repositories, SummaryScores(result.repositories))} :
       /\ result' = [result EXCEPT !.repositories = sorted]
       /\ out' = [result EXCEPT !.repositories = sorted]
  /\ apc' = "done"
  /\ UNCHANGED <<entry, username, remote, repos, pc, loc, ret, issued, failed>>

AllSettledUnsorted ==
  /\ apc = "settle"
  /\ \A t \in Tasks : pc[t] \in {"none", "done"}
  /\ out' = result
  /\ apc' = "done"
  /\ UNCHANGED <<entry, username, remote, repos, result, pc, loc, ret, issued, failed>>

AllSettled ==
  /\ apc = "settle"
  /\ \A t \in Tasks : pc[t] \in {"none", "done"}
  /\ \E sorted \in {SortDescBy(result.repositories, SummaryScores(result.repositories))} :
       /\ result' = [result EXCEPT !.repositories = sorted]
       /\ out' = [result EXCEPT !.repositories = sorted]
  /\ apc' = "done"
  /\ UNCHANGED <<entry, username, remote, repos, pc, loc, ret, issued, failed>>

\* ------------------------------------------------------------------------
\* Specifications
\* ------------------------------------------------------------------------

Step(t) ==
  \/ ForkResolved(t)
  \/ ClassifierRepo(t)
  \/ ClassifierContributors(t)
  \/ ClassifierCommits(t)
  \/ RepoDataRepo(t)
  \/ RepoDataContributors(t)
  \/ RepoDataIssues(t)
  \/ RepoDataPulls(t)
  \/ UserProfile(t)
  \/ Collaborators(t)
  \/ UserCommits(t)
  \/ UserPRs(t)
  \/ MergedPRs(t)
  \/ UserIssues(t)
  \/ AppendEntry(t)

Next ==
  \/ ListRepos
  \/ AllSettled
  \/ \E t \in Tasks : Step(t)

Spec ==
  Init /\ [][Next]_vars

\* Direct calls of calculateContributorScore and fetchRepoData on one sampled
\* repository.
InitScore ==
  InitWith({"score", "repo"}, {LoginLowerA}, SampleWorlds)

NextScore ==
  \/ ClassifierRepo(1)
  \/ ClassifierContributors(1)
  \/ ClassifierCommits(1)
  \/ RepoDataRepo(1)
  \/ RepoDataContributors(1)
  \/ RepoDataIssues(1)
  \/ RepoDataPulls(1)
  \/ UserProfile(1)
  \/ Collaborators(1)
  \/ UserCommits(1)
  \/ UserPRs(1)
  \/ MergedPRs(1)
  \/ UserIssues(1)

SpecScore ==
  InitScore /\ [][NextScore]_vars

\* Direct calls of calculateContributorScore on one repository drawn by its
\* classifier factors.
InitClassify ==
  InitWith({"score"}, {LoginLowerA}, FactorWorlds)

SpecClassify ==
  InitClassify /\ [][NextScore]_vars

\* Direct calls of calculateContributorScore on one repository drawn by its
\* issue and pull-request history.
InitHealth ==
  InitWith({"score"}, {LoginLowerA}, HealthWorlds)

SpecHealth ==
  InitHealth /\ [][NextScore]_vars

\* Direct calls of calculateContributorScore on one repository drawn by the
\* user's standing among its contributors.
InitRank ==
  InitWith({"score"}, {LoginLowerA}, RankWorlds)

SpecRank ==
  InitRank /\ [][NextScore]_vars

\* Direct calls of fetchRepoData on one repository drawn by its history.
InitRepoData ==
  InitWith({"repo"}, {LoginLowerA}, HistoryWorlds)

NextRepoData ==
  \/ RepoDataRepo(1)
  \/ RepoDataContributors(1)
  \/ RepoDataIssues(1)
  \/ RepoDataPulls(1)

SpecRepoData ==
  InitRepoData /\ [][NextRepoData]_vars

\* Every remote lookup is answered, and every continuation that can run
\* does: some step is taken as long as one is possible.
FairSpec ==
  Spec /\ WF_vars(Next)

\* ------------------------------------------------------------------------
\* The outcome of one call as a function of its own responses
\* ------------------------------------------------------------------------

\* What isOpenSourceRepo returns for repository name when exactly the lookups
\* in F fail (of those it sends).
VerdictWhen(name, F) ==
  LET r == Repositories[name]
      numContributors ==
        IF "os_contributors" \in F THEN 0
        ELSE Len(Take(r.contributors, ClassifierPerPage))
      recentActivity ==
        IF "os_commits" \in F THEN 0 ELSE Min[r.recent_commits, CommitsPerPage]
  IN  IF "os_get" \in F \/ r.private THEN FALSE
      ELSE OpenSourceVerdict(Factors(r, numContributors, recentActivity))

\* The contributionStats calculateContributorScore compiles for repository
\* name when exactly the lookups in F fail.
StatsWhen(name, F) ==
  LET r == Repositories[name]
      allContributors == Take(r.contributors, RepoDataContributorsPerPage)
      userCommits ==
        IF "commits" \in F THEN <<>> ELSE Take(r.user_commits, CommitsPerPage)
  IN  [totalCommits |-> Len(userCommits),
       totalPRs |-> IF "prs" \in F THEN 0 ELSE r.user_prs,
       mergedPRs |-> IF "prs" \in F \/ "merged" \in F THEN 0 ELSE r.user_merged_prs,
       issuesCreated |-> IF "issues" \in F THEN 0 ELSE r.user_issues,
       issuesClosed |-> 0,
       isOwner |-> IsOwner(r.owner, username),
       isMaintainer |-> IF "collab" \in F THEN FALSE
                        ELSE IsMaintainer(r.collaborators, username),
       commitsRank |-> CommitsRank(allContributors, username, userCommits),
       contributorCount |-> Len(allContributors),
       recentActivity |-> RecentActivity(userCommits)]

\* The lookups whose failure makes calculateContributorScore return null.
FatalLookups ==
  {"rd_get", "rd_contributors", "rd_issues", "rd_pulls", "user"}

\* What calculateContributorScore(username, owner, name) returns when exactly
\* the lookups in F fail.
ScoreWhen(name, F) ==
  LET r == Repositories[name]
  IN  IF ~VerdictWhen(name, F) THEN IneligibleResult(username, r.owner, name)
      ELSE IF F \cap FatalLookups # {} THEN NullResult
      ELSE ScoredResult(username, r.owner, name, TRUE, ToLowerCase(username),
                        StatsWhen(name, F),
                        calculateRepoHealthScore(
                          BuildRepoData(Take(r.contributors, RepoDataContributorsPerPage),
                                        Take(r.issues, ListPerPage),
                                        Take(r.pulls, ListPerPage), Now)))

\* The repository the task of list entry e scores when exactly the lookups in
\* F fail: the parent of a fork when the fork's details name one.
TargetWhen(e, F) ==
  IF e.fork /\ "fork_get" \notin F /\ Repositories[e.name].parent # NoParent
  THEN Repositories[e.name].parent
  ELSE e.name

\* The entries the task of list entry e appends when exactly the lookups in F
\* fail: none or one.
EntriesWhen(e, F) ==
  LET name == TargetWhen(e, F)
      data == ScoreWhen(name, F)
  IN  IF e.private \/ ~e.hasOwner \/ data.kind # "data" THEN <<>>
      ELSE <<[name |-> name,
              fullName |-> <<Repositories[name].owner, name>>,
              contributorScore |-> data.contributorScore,
              isOpenSource |-> data.isOpenSource,
              url |-> <<Repositories[name].owner, name>>]>>

\* ------------------------------------------------------------------------
\* Properties
\* ------------------------------------------------------------------------

\* The number of positions of sequence q that hold v.
Occurrences(q, v) ==
  Cardinality({i \in DOMAIN q : q[i] = v})

\* The sum of contributorScore over the open-source entries of a list.
RECURSIVE OpenSourceSum(_)
OpenSourceSum(q) ==
  IF q = <<>> THEN 0
  ELSE (IF Head(q).isOpenSource THEN Head(q).contributorScore ELSE 0)
       + OpenSourceSum(Tail(q))

\* C1: whenever the eligibility classification of a calculateContributorScore
\* call has answered false (private repository, weighted score of at most 35,
\* or an error inside the classification), the call has returned a result
\* with isOpenSource = false and contributorScore = repoHealthScore =
\* totalScore = 0, whatever the data source holds for the other lookups.
C1_IneligibleIsZero ==
  \A t \in Tasks :
    (loc[t].classified /\ ~loc[t].openSource) =>
      /\ ret[t].kind = "data"
      /\ ret[t].isOpenSource = FALSE
      /\ ret[t].contributorScore = 0
      /\ ret[t].repoHealthScore = 0
      /\ ret[t].totalScore = 0

\* A public repository is classified ineligible by its weighted score although
\* the user has commits in it, and the call has returned.
C1_Witness ==
  \E t \in Tasks :
    /\ loc[t].classified /\ ~loc[t].openSource
    /\ "os_commits" \in issued[t]
    /\ failed[t] = {}
    /\ Len(Repo(t).user_commits) > 0
    /\ ret[t].kind = "data"

\* C2: every non-null result of calculateContributorScore has a
\* contributorScore and a repoHealthScore that are integers between 0 and 100
\* and a totalScore that is repoHealthScore * contributorScore / 100 rounded
\* to the nearest integer (halves upwards).
C2_ScoresInRange ==
  \A t \in Tasks :
    ret[t].kind = "data" =>
      /\ ret[t].contributorScore \in 0..100
      /\ ret[t].repoHealthScore \in 0..100
      /\ ret[t].totalScore \in Int
      /\ 100 * ret[t].totalScore
           <= ret[t].repoHealthScore * ret[t].contributorScore + 50
      /\ ret[t].repoHealthScore * ret[t].contributorScore + 50
           < 100 * ret[t].totalScore + 100

\* A scored result whose components add up to more than 100 before the clamp
\* (owner, first of the contributors, ten merged pull requests out of ten,
\* only recent commits, more than ten issues) and whose health is not 100.
C2_Witness ==
  /\ ret[1].kind = "data"
  /\ ret[1].isOpenSource
  /\ ret[1].contributionStats.isOwner
  /\ ret[1].contributionStats.commitsRank = 1
  /\ ret[1].contributionStats.mergedPRs = 10
  /\ ret[1].contributionStats.issuesCreated > 10
  /\ ret[1].contributionStats.recentActivity = DInt(100)
  /\ ret[1].contributorScore = 100
  /\ ret[1].repoHealthScore \in 1..99
  /\ ret[1].totalScore = ret[1].repoHealthScore

\* C3: when calculateOpenSourceValue returns, totalScore is the sum of
\* contributorScore over exactly the entries of repositories whose
\* isOpenSource is true, for every order of the fetched list and every order
\* in which the per-repository tasks complete.
C3_TotalIsOpenSourceSum ==
  apc = "done" => out.totalScore = OpenSourceSum(out.repositories)

\* The call has returned two entries, the task of the second list entry having
\* appended first: an open-source one with a positive score and one that is
\* not open source.
C3_Witness ==
  /\ apc = "done"
  /\ Len(out.repositories) = 2
  /\ out.repositories[1].isOpenSource /\ out.repositories[1].contributorScore > 0
  /\ ~out.repositories[2].isOpenSource
  /\ out.repositories[2].name = repos[1].name
  /\ out.totalScore > 0

\* C4: when calculateOpenSourceValue has returned from a run in which a lookup
\* of some repository X failed or the task of X threw, the entries recorded
\* for every other repository Y are those that Y's own list entry and Y's own
\* responses determine: they are what they are in the run where X's lookups
\* succeed.
C4_OthersUnaffected ==
  out.kind = "value" =>
    \A y \in DOMAIN repos :
      (\E x \in DOMAIN repos : x # y /\ (failed[x] # {} \/ loc[x].threw)) =>
        /\ \A v \in {EntriesWhen(repos[y], failed[y])[i] :
                      i \in DOMAIN EntriesWhen(repos[y], failed[y])} :
             Occurrences(out.repositories, v)
               = Cardinality({z \in DOMAIN repos :
                                EntriesWhen(repos[z], failed[z]) = <<v>>})
        /\ \A i \in DOMAIN out.repositories :
             \E z \in DOMAIN repos :
               EntriesWhen(repos[z], failed[z]) = <<out.repositories[i]>>

\* The call has returned; the scoring of one repository failed (null) and
\* the other repository, none of whose lookups failed, is listed as open
\* source with a positive score.
C4_Witness ==
  /\ apc = "done"
  /\ \E x, y \in DOMAIN repos :
       /\ x # y
       /\ failed[x] # {} /\ ret[x] = NullResult
       /\ failed[y] = {} /\ ret[y].kind = "data" /\ ret[y].isOpenSource
       /\ ret[y].contributorScore > 0
       /\ Len(out.repositories) = 1

\* The lookups of steps 2 to 8 of calculateContributorScore.
ScoringLookups ==
  {"rd_get", "rd_contributors", "rd_issues", "rd_pulls", "user", "collab",
   "commits", "prs", "merged", "issues"}

\* C5: in a calculateContributorScore call, a lookup of steps 2 to 8 (those of
\* fetchRepoData, the user profile, the collaborators, the user's commits and
\* the three searches) has been sent only if the eligibility classification
\* has completed and answered true; for an ineligible repository none is sent.
C5_ClassifyFirst ==
  entry # "repo" =>
    \A t \in Tasks :
      issued[t] \cap ScoringLookups # {} => loc[t].classified /\ loc[t].openSource

\* One call has been classified ineligible after the classifier's three
\* lookups and has sent nothing else, while another has been classified
\* eligible and has sent its last lookup.
C5_Witness ==
  \E t, u \in Tasks :
    /\ loc[t].classified /\ ~loc[t].openSource
    /\ issued[t] = {"os_get", "os_contributors", "os_commits"}
    /\ loc[u].classified /\ loc[u].openSource
    /\ "issues" \in issued[u]

C7_EventuallyReturns ==
  (entry = "value") ~> (out.kind = "value")

\* The call has returned although the scoring of one repository returned null
\* and the task of another threw.
C7_Witness ==
  /\ out.kind = "value"
  /\ apc = "done"
  /\ \E x, y \in DOMAIN repos : ret[x] = NullResult /\ loc[y].threw

\* C8: if the lookup of the user's repository list fails,
\* calculateOpenSourceValue returns {username, totalScore: 0, repositories: []}
\* without throwing, and no per-repository lookup is ever sent.
C8_ListFailureIsZeroValue ==
  apc = "caught" =>
    /\ out.kind = "value"
    /\ out.username = username
    /\ out.totalScore = 0
    /\ out.repositories = <<>>
    /\ \A t \in Tasks : issued[t] = {} /\ pc[t] = "none"

\* The list lookup has failed for a user who has two repositories.
C8_Witness ==
  /\ apc = "caught"
  /\ Len(remote.list) = 2
  /\ out.kind = "value"

\* C9 as stated: calculateContributorScore returns the all-zero result with
\* isOpenSource = false only when the repository metadata was fetched, and
\* returns null when the metadata lookup of the classification fails.
C9_MetadataFailureIsNull ==
  \A t \in Tasks :
    /\ (ret[t].kind = "data" /\ ~ret[t].isOpenSource) => "os_get" \notin failed[t]
    /\ ("os_get" \in failed[t] /\ ret[t] # Pending) => ret[t] = NullResult

\* The lookups of steps 3 to 7 and the statistics each of them feeds.
StatLookups ==
  {"collab", "commits", "prs", "merged", "issues"}

FedBy(lookup) ==
  CASE lookup = "collab" -> {"isMaintainer"}
    [] lookup = "commits" -> {"totalCommits", "recentActivity", "commitsRank"}
    [] lookup = "prs" -> {"totalPRs"}
    [] lookup = "merged" -> {"mergedPRs"}
    [] lookup = "issues" -> {"issuesCreated"}

\* C10 as stated: for an eligible repository, when exactly one lookup of
\* steps 3 to 7 fails, the result is not null, the statistic fed by the failed
\* lookup has its default and every statistic fed by another lookup has the
\* value it has when nothing fails.
C10_OneFailureOneDefault ==
  \A t \in Tasks :
    \A lookup \in StatLookups :
      (failed[t] = {lookup} /\ ret[t] # Pending) =>
        /\ ret[t].kind = "data"
        /\ \A field \in DOMAIN ZeroStats :
             ret[t].contributionStats[field] =
               IF field \in FedBy(lookup) /\ field # "commitsRank"
               THEN ZeroStats[field]
               ELSE IF field = "commitsRank"
                    THEN StatsWhen(loc[t].repo, {lookup})[field]
                    ELSE StatsWhen(loc[t].repo, {})[field]

\* The lookups of calculateContributorScore that are neither the core metadata
\* lookup nor one of steps 3 to 7: the contributor, issue and pull-request
\* lists of fetchRepoData and the user profile.
SubFetches ==
  {"rd_contributors", "rd_issues", "rd_pulls", "user"}

\* C11 as stated: for an eligible repository whose core metadata was fetched,
\* when exactly one of the contributor list, issue list, pull-request list and
\* user profile lookups fails (and nothing else does), calculateContributorScore
\* still returns a non-null result.
C11_SubFetchFailureRecovered ==
  entry # "repo" =>
    \A t \in Tasks :
      \A lookup \in SubFetches :
        (/\ loc[t].classified /\ loc[t].openSource
         /\ failed[t] = {lookup}
         /\ ret[t] # Pending) => ret[t].kind = "data"

\* C12: in calculateOpenSourceValue, once the details of a fork have answered,
\* the task scores the parent (owner and name) when the answer names one, and
\* the fork itself under its own owner and name when the lookup failed or named
\* no parent; scoring is started in either case, and a non-null result is
\* recorded under the full name and URL of the repository that was scored.
C12_ForkIdentity ==
  \A t \in DOMAIN repos :
    (repos[t].fork /\ ~repos[t].private /\ repos[t].hasOwner
       /\ pc[t] # "fork_get") =>
      LET own == repos[t].name
          parent == Repositories[own].parent
          target == IF "fork_get" \in failed[t] \/ parent = NoParent
                    THEN own ELSE parent
      IN  /\ "os_get" \in issued[t]
          /\ loc[t].repo = target
          /\ loc[t].owner = Repositories[target].owner
          /\ (pc[t] = "done" /\ ret[t].kind = "data") =>
                \E i \in DOMAIN result.repositories :
                  /\ result.repositories[i].name = target
                  /\ result.repositories[i].fullName
                       = <<Repositories[target].owner, target>>
                  /\ result.repositories[i].url
                       = <<Repositories[target].owner, target>>
                  /\ result.repositories[i].contributorScore
                       = ret[t].contributorScore

\* The call has returned with two forks listed under their own names: one
\* that has a parent but whose details lookup failed, and one whose details
\* name no parent.
C12_Witness ==
  /\ apc = "done"
  /\ \E x, y \in DOMAIN repos :
       /\ repos[x].fork /\ "fork_get" \in failed[x] /\ ret[x].kind = "data"
       /\ Repositories[repos[x].name].parent # NoParent
       /\ \E i \in DOMAIN out.repositories :
            out.repositories[i].fullName
              = <<Repositories[repos[x].name].owner, repos[x].name>>
       /\ repos[y].fork /\ failed[y] = {} /\ ret[y].kind = "data"
       /\ Repositories[repos[y].name].parent = NoParent
       /\ \E i \in DOMAIN out.repositories :
            out.repositories[i].name = repos[y].name

\* The list entries whose scoring returned a result.
Scored ==
  {t \in DOMAIN repos : ret[t].kind = "data"}

\* C13: the repositories list calculateOpenSourceValue returns holds exactly
\* one entry for each repository of the user's list whose scoring returned a
\* non-null result (an ineligible one with contributorScore 0), and none for a
\* private repository or for one whose scoring returned null or threw.
C13_ExactlyTheScored ==
  apc = "done" =>
    /\ Len(out.repositories) = Cardinality(Scored)
    /\ \A t \in Scored :
         /\ ~repos[t].private /\ ~loc[t].threw
         /\ Occurrences(out.repositories, Summary(t, ret[t]))
              = Cardinality({u \in Scored : Summary(u, ret[u]) = Summary(t, ret[t])})
         /\ ~ret[t].isOpenSource => Summary(t, ret[t]).contributorScore = 0
    /\ \A i \in DOMAIN out.repositories :
         ~Repositories[out.repositories[i].name].private
    /\ \A t \in DOMAIN repos :
         (repos[t].private \/ loc[t].threw \/ ret[t] = NullResult) => t \notin Scored

\* The call has returned a list of one entry, an ineligible repository with
\* score 0, for a user whose other repository is private.
C13_Witness ==
  /\ apc = "done"
  /\ Len(out.repositories) = 1
  /\ ~out.repositories[1].isOpenSource
  /\ \E x, y \in DOMAIN repos :
       repos[x].private /\ ret[y].kind = "data" /\ ~ret[y].isOpenSource

\* C14: in the result calculateOpenSourceValue returns, the repositories are
\* in order of contributorScore, highest first, whatever the order of the
\* fetched list and of the tasks' completions.
C14_SortedByScore ==
  apc = "done" =>
    \A i, j \in DOMAIN out.repositories :
      i < j => out.repositories[i].contributorScore
                 >= out.repositories[j].contributorScore

\* The call has returned two entries with different scores, the entry of the
\* second repository of the fetched list standing first.
C14_Witness ==
  /\ apc = "done"
  /\ Len(out.repositories) = 2
  /\ out.repositories[1].contributorScore > out.repositories[2].contributorScore
  /\ out.repositories[1].name = repos[2].name
  /\ out.repositories[2].name = repos[1].name

\* C15: when isOpenSourceRepo finds the repository private it answers
\* ineligible at once: the contributor list and the recent commits are never
\* asked for, and the verdict is false whatever the weighted score would be.
C15_PrivateSkipsScoring ==
  \A t \in Tasks :
    (loc[t].repo # "none" /\ Repo(t).private /\ "os_get" \in issued[t]) =>
      /\ issued[t] \cap {"os_contributors", "os_commits"} = {}
      /\ pc[t] # "os_get" => /\ loc[t].classified /\ ~loc[t].openSource
                              /\ ret[t] = IneligibleResult(username, loc[t].owner,
                                                           loc[t].repo)

\* A private repository whose factors would weigh more than 35 has been
\* classified ineligible after the metadata lookup alone, which succeeded.
C15_Witness ==
  \E t \in Tasks :
    /\ loc[t].repo # "none" /\ Repo(t).private
    /\ OpenSourceVerdict(Factors(Repo(t), 0, 0))
    /\ loc[t].classified /\ ~loc[t].openSource
    /\ issued[t] = {"os_get"} /\ failed[t] = {}

\* The weighted sum of the factors in exact arithmetic.
WeightedScoreExact(factors) ==
  RAdd[RAdd[RAdd[RAdd[RAdd[RAdd[
    RMul[RFrac(5, 10), RInt(Min[factors.forks, 50])],
    RMul[RFrac(3, 10), RInt(Min[factors.stars, 100])]],
    RInt(Min[factors.contributors, 10] * 5)],
    RInt(IF factors.hasLicense THEN 20 ELSE 0)],
    RMul[RFrac(4, 10), RInt(Min[factors.issues, 50])]],
    RMul[RFrac(2, 10), RInt(Min[factors.recentActivity, 100])]],
    RMin[RFrac(factors.size, 1000), RInt(10)]]

\* The factors isOpenSourceRepo scores for repository name when exactly the
\* lookups in F fail.
FactorsWhen(name, F) ==
  LET r == Repositories[name]
  IN  Factors(r,
              IF "os_contributors" \in F THEN 0
              ELSE Len(Take(r.contributors, ClassifierPerPage)),
              IF "os_commits" \in F THEN 0
              ELSE Min[r.recent_commits, CommitsPerPage])

\* C16 as stated: for a public repository whose metadata was fetched,
\* isOpenSourceRepo returns true if and only if the weighted sum of the capped
\* factors, as a number, is strictly greater than 35.
C16_EligibleIffAboveThreshold ==
  \A t \in Tasks :
    (/\ loc[t].classified
     /\ "os_get" \notin failed[t]
     /\ ~Repo(t).private) =>
      (loc[t].openSource <=>
         RLess[RInt(Threshold), WeightedScoreExact(FactorsWhen(loc[t].repo, failed[t]))])
\* The lookups of isOpenSourceRepo.
ClassifierLookups ==
  {"os_get", "os_contributors", "os_commits"}

\* C17: in isOpenSourceRepo, the recent-commit lookup is issued even when the
\* contributor-list lookup failed; once the last lookup has answered the
\* classification has completed; and for a public repository whose metadata
\* was fetched the verdict is the one of the factors in which exactly the
\* factor of each failed lookup is 0 and every other factor has its value.
C17_FailedFactorIsZero ==
  \A t \in Tasks :
    /\ "os_contributors" \in failed[t] => "os_commits" \in issued[t]
    /\ ("os_get" \in issued[t] /\ pc[t] \notin ClassifierLookups) => loc[t].classified
    /\ (loc[t].classified /\ "os_get" \notin failed[t] /\ ~Repo(t).private) =>
         loc[t].openSource = OpenSourceVerdict(FactorsWhen(loc[t].repo, failed[t]))

\* A repository with listed contributors is classified eligible although its
\* contributor-list lookup failed.
C17_Witness ==
  \E t \in Tasks :
    /\ "os_contributors" \in failed[t]
    /\ Len(Repo(t).contributors) > 0
    /\ loc[t].classified /\ loc[t].openSource
\* round(R + T + M) in exact arithmetic, from the numbers of open and closed
\* issues, the average resolution time and the numbers of merged and of all
\* pull requests.
HealthScoreExact(open, closed, avgResolutionTime, merged, totalPRs) ==
  LET R == IF open + closed > 0
           THEN RMul[RFrac(closed, open + closed), RInt(40)]
           ELSE RInt(30)
      T == IF RLess[RInt(0), avgResolutionTime]
           THEN RMul[RSub[RInt(1),
                          RMul[RMin[avgResolutionTime, RInt(30)], RFrac(1, 30)]],
                     RInt(30)]
           ELSE RInt(0)
      M == IF totalPRs > 0 THEN RMul[RFrac(merged, totalPRs), RInt(30)] ELSE RInt(0)
  IN  RRound[RAdd[RAdd[R, T], M]]

\* The same for the issues and pull requests fetchRepoData fetches of
\* repository name.
HealthExactOf(name) ==
  LET data == BuildRepoData(<<>>, Take(Repositories[name].issues, ListPerPage),
                            Take(Repositories[name].pulls, ListPerPage), Now)
      closed == data.issues.closed
      days == SumSeq([i \in DOMAIN closed |-> closed[i].closed_at - closed[i].created_at])
  IN  HealthScoreExact(Len(data.issues.open), Len(closed),
                       IF Len(closed) > 0 THEN RFrac(days, Len(closed)) ELSE RInt(0),
                       Len(data.pullRequests.merged), Len(data.pullRequests.all))

\* The data of the scenario: 200 closed and no open issues resolved in 2 days
\* on average, 50 pull requests, all merged.
HealthScenario ==
  [issues |-> [open |-> <<>>,
               closed |-> [i \in 1..200 |-> Issue(FALSE, "closed", Today - 2, Today)],
               avgResolutionTime |-> DQuot[400, 200]],
   pullRequests |-> [all |-> [i \in 1..50 |-> Pull("closed", Today - 1, Today, Today)],
                     merged |-> [i \in 1..50 |-> Pull("closed", Today - 1, Today, Today)]]]

\* C18 as stated: the health score of every scored repository is
\* round(R + T + M), with R = (closed / all issues) * 40 or 30 without issues,
\* T = (1 - min(avgResolutionTime, 30) / 30) * 30 for a positive average and
\* 0 otherwise, M = (merged / all pull requests) * 30 or 0 without pull
\* requests; and the scenario scores 98.
C18_HealthIsRoundedSum ==
  /\ calculateRepoHealthScore(HealthScenario) = 98
  /\ \A t \in Tasks :
       (ret[t].kind = "data" /\ ret[t].isOpenSource) =>
         ret[t].repoHealthScore = HealthExactOf(loc[t].repo)
\* The statistics stats with commitsRank replaced by rank.
AtRank(stats, rank) ==
  [stats EXCEPT !.commitsRank = rank]

\* C19 as stated: with contributorCount and the commit count fixed, the
\* points for commit volume and rank (the score before the pull-request part
\* is added) never increase with commitsRank: a scored user at rank r has at
\* least the points the code gives at rank r + 1, up to the rank
\* contributorCount + 1 of a user with commits outside the contributor list.
C19_CommitPointsMonotone ==
  \A t \in Tasks :
    (ret[t].kind = "data" /\ ret[t].isOpenSource) =>
      LET stats == ret[t].contributionStats
          r == stats.commitsRank
      IN  (/\ r >= 1
           /\ \/ r + 1 <= stats.contributorCount
              \/ r + 1 = stats.contributorCount + 1 /\ stats.totalCommits > 0) =>
            ~DLess[CommitPoints(stats), CommitPoints(AtRank(stats, r + 1))]
\* The statistics of the scenario: the owner, first of 5 contributors, 10
\* pull requests all merged, every commit recent, 3 issues created.
ScoreScenario ==
  [totalCommits |-> 10, totalPRs |-> 10, mergedPRs |-> 10, issuesCreated |-> 3,
   issuesClosed |-> 0, isOwner |-> TRUE, isMaintainer |-> FALSE,
   commitsRank |-> 1, contributorCount |-> 5,
   recentActivity |-> DTimes[DQuot[10, 10], 100]]

\* The points the rank adds to the score: rankScore for a repository with
\* listed contributors, nothing otherwise.
RankComponent(stats) ==
  IF stats.contributorCount > 0
  THEN RankScore(stats.commitsRank, stats.contributorCount)
  ELSE DInt(0)

\* C20 as stated: for every commitsRank the code produces, 0 included, the
\* rank component of a scored repository lies between 0 and 40, and the
\* scenario scores 100.
C20_RankComponentCapped ==
  /\ ContributorScore(ScoreScenario) = 100
  /\ \A t \in Tasks :
       (ret[t].kind = "data" /\ ret[t].isOpenSource) =>
         /\ ~DLess[RankComponent(ret[t].contributionStats), DInt(0)]
         /\ ~DLess[DInt(40), RankComponent(ret[t].contributionStats)]
\* The closed issues among the first page of the issue list of repository r,
\* and the merged pull requests among the first page of its pull requests, as
\* sets of positions.
ClosedIssuesOf(r) ==
  {i \in 1..Min[Len(r.issues), ListPerPage] :
     ~r.issues[i].pull_request /\ r.issues[i].state = "closed"}

MergedPullsOf(r) ==
  {i \in 1..Min[Len(r.pulls), ListPerPage] : r.pulls[i].merged_at # NoDate}

\* The days from creation to closing, summed over the positions I of items;
\* likewise from creation to merge.
RECURSIVE DaysToClose(_, _)
DaysToClose(items, I) ==
  IF I = {} THEN 0
  ELSE LET i == CHOOSE j \in I : TRUE
       IN  (items[i].closed_at - items[i].created_at) + DaysToClose(items, I \ {i})

RECURSIVE DaysToMerge(_, _)
DaysToMerge(items, I) ==
  IF I = {} THEN 0
  ELSE LET i == CHOOSE j \in I : TRUE
       IN  (items[i].merged_at - items[i].created_at) + DaysToMerge(items, I \ {i})

\* C21: when every lookup of fetchRepoData succeeded it returns its data (no
\* exception), in which avgResolutionTime is the number 0 without closed
\* issues and otherwise the sum of the resolution times of the closed issues
\* divided by their number, and avgMergeTime is the number 0 without merged
\* pull requests and otherwise the sum of the merge times of the merged pull
\* requests divided by their number.
C21_AveragesOrZero ==
  (entry = "repo" /\ pc[1] = "done" /\ failed[1] = {}) =>
    /\ out.kind = "repoData"
    /\ out.data.issues.avgResolutionTime =
         IF ClosedIssuesOf(Repo(1)) = {} THEN DInt(0)
         ELSE DQuot[DaysToClose(Repo(1).issues, ClosedIssuesOf(Repo(1))),
                    Cardinality(ClosedIssuesOf(Repo(1)))]
    /\ out.data.pullRequests.avgMergeTime =
         IF MergedPullsOf(Repo(1)) = {} THEN DInt(0)
         ELSE DQuot[DaysToMerge(Repo(1).pulls, MergedPullsOf(Repo(1))),
                    Cardinality(MergedPullsOf(Repo(1)))]

\* fetchRepoData returned for a repository that has issues, none of them
\* closed, and several merged pull requests among others.
C21_Witness ==
  /\ entry = "repo" /\ out.kind = "repoData"
  /\ Repo(1).issues # <<>> /\ ClosedIssuesOf(Repo(1)) = {}
  /\ out.data.issues.avgResolutionTime = DInt(0)
  /\ Cardinality(MergedPullsOf(Repo(1))) > 1
  /\ out.data.pullRequests.avgMergeTime # DInt(0)
\* The label of the calendar month after the one labelled label.
LabelAfter(label) ==
  IF label[1] = 12 THEN <<1, label[2] + 1>> ELSE <<label[1] + 1, label[2]>>

\* A series of six months in calendar order that ends with the month of day.
SixMonthsUpTo(trends, day) ==
  /\ Len(trends) = 6
  /\ trends[6].month = MonthLabel(MonthOf(day))
  /\ \A j \in 1..5 : trends[j + 1].month = LabelAfter(trends[j].month)

\* C22: the monthly trends fetchRepoData returns for the issues and for the
\* pull requests, whatever the lists (the empty list included), have exactly
\* 6 entries, one per calendar month, oldest first, the last being the
\* current month and the first the month 5 months earlier.
C22_SixMonthsOldestFirst ==
  (entry = "repo" /\ out.kind = "repoData") =>
    /\ SixMonthsUpTo(out.data.issues.monthlyTrends, Now)
    /\ SixMonthsUpTo(out.data.pullRequests.monthlyTrends, Now)

\* fetchRepoData returned for a repository without issues, called in a month
\* whose 6-month window starts in the year before.
C22_Witness ==
  /\ entry = "repo" /\ out.kind = "repoData"
  /\ Repo(1).issues = <<>> /\ Repo(1).pulls # <<>>
  /\ Len(out.data.issues.monthlyTrends) = 6
  /\ out.data.issues.monthlyTrends[1].month[2] # out.data.issues.monthlyTrends[6].month[2]
\* The contributor score of stats when min(10, commit count) is added to the
\* rank component exactly if added holds.
ScoreWithFallback(stats, added) ==
  ClampScore(DAdd[DAdd[DAdd[DAdd[
    DAdd[RankComponent(stats),
         DInt(IF added THEN Min[10, stats.totalCommits] ELSE 0)],
    PRPoints(stats)],
    DInt(RolePoints(stats))],
    ActivityPoints(stats)],
    DInt(IssuePoints(stats))])

\* C23 as stated: the score of a scored repository contains the commit-count
\* fallback min(10, commit count) exactly when contributorCount is 0 and the
\* user has at least one commit, and never when contributorCount > 0.
C23_FallbackOnlyWithoutContributors ==
  \A t \in Tasks :
    (ret[t].kind = "data" /\ ret[t].isOpenSource) =>
      LET stats == ret[t].contributionStats
      IN  ret[t].contributorScore =
            ScoreWithFallback(stats, stats.contributorCount = 0 /\ stats.totalCommits >= 1)
\* The positions of the fetched contributor list of repository r whose login
\* is the user's, letter case apart.
ListedAs(r, user) ==
  {i \in 1..Min[Len(r.contributors), RepoDataContributorsPerPage] :
     ToLowerCase(r.contributors[i].login) = ToLowerCase(user)}

\* The place of position i of the fetched contributor list of r once the list
\* is ordered by contributions, highest first, equal counts in list order.
PlaceByContributions(r, i) ==
  1 + Cardinality({j \in 1..Min[Len(r.contributors), RepoDataContributorsPerPage] :
                     \/ r.contributors[j].contributions > r.contributors[i].contributions
                     \/ /\ r.contributors[j].contributions = r.contributors[i].contributions
                        /\ j < i})

\* C24: in the statistics of a scored repository, commitsRank is the 1-based
\* place of the user (login compared without regard to letter case) in the
\* fetched contributor list ordered by contributions, highest first; for a
\* user who is not in the list but has at least one fetched commit it is
\* contributorCount + 1; and it never exceeds contributorCount + 1.
C24_RankIsPlaceInSortedList ==
  \A t \in Tasks :
    (ret[t].kind = "data" /\ ret[t].isOpenSource) =>
      LET stats == ret[t].contributionStats
          listed == ListedAs(Repo(t), username)
      IN  /\ stats.commitsRank <= stats.contributorCount + 1
          /\ listed # {} =>
               /\ \E i \in listed : stats.commitsRank = PlaceByContributions(Repo(t), i)
               /\ \A i \in listed : stats.commitsRank <= PlaceByContributions(Repo(t), i)
          /\ (listed = {} /\ stats.totalCommits >= 1) =>
               stats.commitsRank = stats.contributorCount + 1

\* A scored user whose login is spelled in another letter case in the
\* contributor list, where it comes second but has the most contributions.
C24_Witness ==
  \E t \in Tasks :
    /\ ret[t].kind = "data" /\ ret[t].isOpenSource
    /\ 2 \in ListedAs(Repo(t), username)
    /\ Repo(t).contributors[2].login # username
    /\ ret[t].contributionStats.commitsRank = 1
\* The issues fetchRepoData keeps of repository r and the pull requests it
\* fetches, as sets of positions.
IssuesOf(r) ==
  {i \in 1..Min[Len(r.issues), ListPerPage] : ~r.issues[i].pull_request}

PullsOf(r) ==
  1..Min[Len(r.pulls), ListPerPage]

\* The positions in I of the items whose timestamp field lies in the calendar
\* month labelled label.
StampedIn(items, I, field, label) ==
  {i \in I : /\ items[i][field] # NoDate
             /\ MonthLabel(MonthOf(items[i][field])) = label}

\* The sum of the counter field over the six entries of trends.
TrendTotal(trends, field) ==
  trends[1][field] + trends[2][field] + trends[3][field]
    + trends[4][field] + trends[5][field] + trends[6][field]

\* C25: in the monthly trends fetchRepoData returns, the opened counter of a
\* month counts the items created in that calendar month, the closed counter
\* the items closed in it and, for pull requests, the merged counter the pull
\* requests merged in it; so an item adds to at most one opened, one closed
\* and one merged counter and to none for a timestamp outside the six
\* months; every merged counter of the issue trends is 0.
C25_OneBucketPerTimestamp ==
  (entry = "repo" /\ out.kind = "repoData") =>
    LET r == Repo(1)
        issueTrends == out.data.issues.monthlyTrends
        pullTrends == out.data.pullRequests.monthlyTrends
    IN  /\ \A j \in 1..6 :
             /\ issueTrends[j].opened =
                  Cardinality(StampedIn(r.issues, IssuesOf(r), "created_at", issueTrends[j].month))
             /\ issueTrends[j].closed =
                  Cardinality(StampedIn(r.issues, IssuesOf(r), "closed_at", issueTrends[j].month))
             /\ issueTrends[j].merged = 0
             /\ pullTrends[j].opened =
                  Cardinality(StampedIn(r.pulls, PullsOf(r), "created_at", pullTrends[j].month))
             /\ pullTrends[j].closed =
                  Cardinality(StampedIn(r.pulls, PullsOf(r), "closed_at", pullTrends[j].month))
             /\ pullTrends[j].merged =
                  Cardinality(StampedIn(r.pulls, PullsOf(r), "merged_at", pullTrends[j].month))
        /\ TrendTotal(issueTrends, "opened") <= Cardinality(IssuesOf(r))
        /\ TrendTotal(issueTrends, "closed") <= Cardinality(IssuesOf(r))
        /\ TrendTotal(pullTrends, "opened") <= Cardinality(PullsOf(r))
        /\ TrendTotal(pullTrends, "closed") <= Cardinality(PullsOf(r))
        /\ TrendTotal(pullTrends, "merged") <= Cardinality(PullsOf(r))

\* fetchRepoData returned for a repository with a pull request created
\* before the six months and merged in the current month: it is counted as
\* merged in the last entry and as opened in none.
C25_Witness ==
  /\ entry = "repo" /\ out.kind = "repoData"
  /\ \E i \in PullsOf(Repo(1)) :
       /\ Repo(1).pulls[i].merged_at # NoDate
       /\ MonthOf(Repo(1).pulls[i].merged_at) = MonthOf(Now)
       /\ MonthOf(Repo(1).pulls[i].created_at) < MonthOf(Now) - 5
  /\ out.data.pullRequests.monthlyTrends[6].merged >= 1
  /\ TrendTotal(out.data.pullRequests.monthlyTrends, "opened") < Cardinality(PullsOf(Repo(1)))
\* Whether x is an element of the sequence s.
Among(x, s) ==
  \E i \in DOMAIN s : s[i] = x

\* C26: in the data fetchRepoData returns, the open, closed and merged pull
\* requests are pairwise disjoint parts of the fetched pull-request list that
\* together make up the whole list, a pull request being among the merged
\* ones exactly if it has a merge timestamp; and no issue of the issue list
\* carries a pull_request marker.
C26_PullRequestsPartitioned ==
  (entry = "repo" /\ out.kind = "repoData") =>
    LET pulls == out.data.pullRequests
        fetched == Take(Repo(1).pulls, ListPerPage)
    IN  /\ pulls.all = fetched
        /\ Len(pulls.open) + Len(pulls.closed) + Len(pulls.merged) = Len(fetched)
        /\ \A i \in DOMAIN fetched :
             /\ Among(fetched[i], pulls.merged) <=> fetched[i].merged_at # NoDate
             /\ \/ Among(fetched[i], pulls.open)
                \/ Among(fetched[i], pulls.closed)
                \/ Among(fetched[i], pulls.merged)
             /\ ~(Among(fetched[i], pulls.open) /\ Among(fetched[i], pulls.closed))
             /\ ~(Among(fetched[i], pulls.open) /\ Among(fetched[i], pulls.merged))
             /\ ~(Among(fetched[i], pulls.closed) /\ Among(fetched[i], pulls.merged))
        /\ \A i \in DOMAIN out.data.issues.all : ~out.data.issues.all[i].pull_request

\* fetchRepoData returned for a repository that has open, rejected and merged
\* pull requests and whose issue list came with a pull request in it.
C26_Witness ==
  /\ entry = "repo" /\ out.kind = "repoData"
  /\ out.data.pullRequests.open # <<>>
  /\ out.data.pullRequests.closed # <<>>
  /\ out.data.pullRequests.merged # <<>>
  /\ \E i \in DOMAIN Repo(1).issues : Repo(1).issues[i].pull_request
  /\ out.data.issues.all # <<>>
\* C27 as stated: a scored (eligible) repository gives contributorScore 0 to
\* a user who is not in its contributor list, has no fetched commits, no pull
\* requests and no authored issues, and is neither owner nor maintainer.
C27_NoContributionNoScore ==
  \A t \in Tasks :
    (ret[t].kind = "data" /\ ret[t].isOpenSource) =>
      LET stats == ret[t].contributionStats
      IN  (/\ ListedAs(Repo(t), username) = {}
           /\ stats.totalCommits = 0
           /\ stats.totalPRs = 0
           /\ stats.issuesCreated = 0
           /\ ~stats.isOwner /\ ~stats.isMaintainer) =>
            ret[t].contributorScore = 0
\* C28: in every state of a calculateOpenSourceValue call, whichever tasks
\* are suspended and wherever, the accumulator is consistent:
\* result.totalScore is the sum of contributorScore over the entries of
\* result.repositories whose isOpenSource is true.
C28_AccumulatorConsistent ==
  entry = "value" => result.totalScore = OpenSourceSum(result.repositories)

\* One task has appended an open-source entry with a positive score while
\* another task is still suspended at a lookup.
C28_Witness ==
  /\ entry = "value" /\ apc = "settle"
  /\ \E t \in Tasks : pc[t] = "done" /\ ret[t].kind = "data" /\ ret[t].isOpenSource
                       /\ ret[t].contributorScore > 0
  /\ \E t \in Tasks : pc[t] \notin {"none", "returned", "done"}
  /\ result.totalScore > 0
\* Every per-repository task has settled: it was never started or has ended.
TasksSettled ==
  \A t \in Tasks : pc[t] \in {"none", "done"}

\* C29: calculateOpenSourceValue sorts and returns only when every
\* per-repository task has settled, and once it has returned no step changes
\* result.repositories, result.totalScore or the returned value.
C29_NoWriteAfterReturn ==
  [][/\ (apc # "done" /\ apc' = "done") => TasksSettled
     /\ apc = "done" => (result' = result /\ out' = out /\ TasksSettled)]_vars

\* The call has returned two entries after both tasks ended, one of them
\* with a failed lookup.
C29_Witness ==
  /\ apc = "done"
  /\ Len(out.repositories) = 2
  /\ \A t \in Tasks : pc[t] = "done"
  /\ \E t \in Tasks : failed[t] # {}
\* C30 as stated: no two entries of the repositories list that
\* calculateOpenSourceValue returns have the same fullName.
C30_FullNamesDistinct ==
  (entry = "value" /\ apc = "done") =>
    \A i, j \in DOMAIN out.repositories :
      i # j => out.repositories[i].fullName # out.repositories[j].fullName
====
